---- MODULE Spec2Model ----
(***************************************************************************)
(* A model of the icfp-2020 "alien language" core: the symbol algebra      *)
(* (src/src/ast.rs), the modulation codec (src/src/ast/modulations.rs)     *)
(* and the stack interpreter (src/src/stack_interpreter.rs).               *)
(*                                                                         *)
(* Symbols are records carrying a tag; a SymbolCell (an Rc<Symbol>) is     *)
(* modelled by the symbol it points to, since cells are compared by        *)
(* value in the code (derive(PartialEq) on SymbolCell and Symbol).         *)
(***************************************************************************)
EXTENDS Integers, Sequences, FiniteSets, TLC

VARIABLES
    statements, \* Vec<Statement> handed to stack_interpret
    pc,         \* position of the driver: "build", "run", "done", or codec phases
    next_stmt,  \* index of the next statement stack_interpret inserts
    env,        \* StackEnvironment built by stack_interpret
    op,         \* run_expression: the current expression `op`
    vm,         \* the VM: [heap, stack]
    count,      \* run_expression: the loop counter `count`
    result,     \* what stack_interpret ended with: [status, value]
    cvalue,     \* codec: the symbol handed to modulate
    cbits,      \* codec: modulate's outcome
    cdecoded,   \* codec: demodulate's outcome
    driver      \* the command-line driver (app/main.rs): its loop's state

vars ==
    <<statements, pc, next_stmt, env, op, vm, count, result, cvalue, cbits, cdecoded,
      driver>>

vmVars == <<statements, next_stmt, env, op, vm, count, result>>
codecVars == <<cvalue, cbits, cdecoded>>
driverVars == <<driver>>

(***************************************************************************)
(* Bounds of the model.                                                    *)
(***************************************************************************)
\* literals handed to the codec range over -MaxNum..MaxNum
MaxNum == 300
\* nesting depth of the Pair values handed to the codec
MaxPairDepth == 2

(***************************************************************************)
(* Symbol (src/src/ast.rs, enum Symbol) and the run-time variants the      *)
(* stack interpreter adds (Closure).                                       *)
(***************************************************************************)
Lit(n) == [tag |-> "Lit", n |-> n]
Var(id) == [tag |-> "Var", id |-> id]
Pair(hd, tl) == [tag |-> "Pair", hd |-> hd, tl |-> tl]
List(items) == [tag |-> "List", items |-> items]
Modulated(bits) == [tag |-> "Modulated", bits |-> bits]
Closure(captured_arg, body) ==
    [tag |-> "Closure", captured_arg |-> captured_arg, body |-> body]
Sym(tag) == [tag |-> tag]
\* Symbol::StoreArg(name), the variant the StoreArg arm of run_function matches
StoreArg(name) == [tag |-> "StoreArg", name |-> name]

Nil == Sym("Nil")
Ap == Sym("Ap")

\* Symbol::num_args
NumArgs(s) ==
    CASE s.tag \in {"Lit", "Var", "Nil", "List", "Pair", "Modulated"} -> 0
      [] s.tag \in {"Inc", "Dec", "Mod", "Dem", "Send", "Neg", "Pwr2", "I",
                    "Car", "Cdr", "IsNil", "Draw", "MultipleDraw"} -> 1
      [] s.tag \in {"Eq", "Add", "Mul", "Div", "T", "F", "Lt", "Ap", "Cons",
                    "Checkerboard"} -> 2
      [] s.tag \in {"S", "C", "B", "If0", "Interact", "StatelessDraw"} -> 3
      [] OTHER -> 0

(***************************************************************************)
(* Outcomes.  A Rust panic (unwrap on None, unreachable!, unimplemented!,  *)
(* a slice index out of range, a failed assert) ends the computation; it   *)
(* is modelled by the status "panic".                                      *)
(***************************************************************************)
Ok(v) == [status |-> "ok", value |-> v]
Idle == [status |-> "none"]
\* the driver before main has started
NoDriver ==
    [status |-> "none", code |-> 0, round |-> 0, program |-> Nil, sends |-> 0,
     sent |-> <<>>, reply |-> "none", response |-> Nil]
\* HashMap::new()
EmptyHeap == <<>>
Panic == [status |-> "panic"]

\* VM::new, run: a VM over the given heap with an empty stack.  The field
\* effects is the record of the calls made on vm.effects, in order.
NewVM(heap) == [heap |-> heap, stack |-> <<>>, effects |-> <<>>]

(***************************************************************************)
(* The modulation codec, src/src/ast/modulations.rs.                       *)
(* Modulated = Vec<bool>.                                                  *)
(***************************************************************************)
MODULATED_LIST == <<TRUE, TRUE>>
NIL == <<FALSE, FALSE>>
ZERO == <<FALSE, TRUE, FALSE>>
SIGN_POSITIVE == <<FALSE, TRUE>>
SIGN_NEGATIVE == <<TRUE, FALSE>>

Abs(n) == IF n < 0 THEN -n ELSE n

RECURSIVE BinaryDigits(_)
\* format!("{:b}", value): the binary digits of value > 0, most significant first
BinaryDigits(value) ==
    IF value = 0 THEN <<>>
    ELSE Append(BinaryDigits(value \div 2), value % 2 = 1)

\* log_2(x) = num_bits - leading_zeros - 1, asserted for x > 0
Log2(x) == Len(BinaryDigits(x)) - 1

Repeat(b, n) == [i \in 1..n |-> b]

\* format!("{:0>width$b}", value): left-padded with zeros up to width, never cut
FormatBinary(value, width) ==
    LET digits == BinaryDigits(value)
    IN  IF Len(digits) >= width THEN digits
        ELSE Repeat(FALSE, width - Len(digits)) \o digits

\* modulate_number without the rounding of the width up to whole nibbles:
\* the variant C9 has to tell from the code
ModulateNumberUnrounded(value) ==
    IF value = 0 THEN ZERO
    ELSE
        LET sign == IF value > 0 THEN SIGN_POSITIVE ELSE SIGN_NEGATIVE
            v == Abs(value)
            width == Log2(v) + 1
            ones == Repeat(TRUE, width \div 4)
        IN  sign \o ones \o <<FALSE>> \o FormatBinary(v, width)

\* fn modulate_number
ModulateNumber(value) ==
    IF value = 0 THEN ZERO
    ELSE
        LET sign == IF value > 0 THEN SIGN_POSITIVE ELSE SIGN_NEGATIVE
            v == Abs(value)
            number_of_bits_for_number == Log2(v) + 1
            remainder == IF number_of_bits_for_number % 4 # 0 THEN 1 ELSE 0
            width == (number_of_bits_for_number \div 4 + remainder) * 4
            ones == Repeat(TRUE, width \div 4)
        IN  sign \o ones \o <<FALSE>>
                 \o (IF width > 0 THEN FormatBinary(v, width) ELSE <<>>)

RECURSIVE Modulate(_)
RECURSIVE ModulateItems(_, _)
\* the fold of modulate's List arm: append each element's encoding to vec
ModulateItems(vec, items) ==
    IF items = <<>> THEN Ok(vec)
    ELSE LET m == Modulate(Head(items))
         IN  IF m.status # "ok" THEN Panic
             ELSE ModulateItems(vec \o m.value, Tail(items))

\* modulate with the Pair arm closing the pair with NIL, as the List arm
\* does: the variant C10 has to tell from the code
ModulateTerminated(value) ==
    CASE value.tag = "Lit" -> Ok(ModulateNumber(value.n))
      [] value.tag = "Nil" -> Ok(NIL)
      [] value.tag = "Pair" ->
            LET l == Modulate(value.hd)
                r == Modulate(value.tl)
            IN  IF l.status # "ok" \/ r.status # "ok" THEN Panic
                ELSE Ok(MODULATED_LIST \o l.value \o r.value \o NIL)
      [] OTHER -> Panic

\* pub fn modulate: Ok(bits), or Panic on the unimplemented! arm
Modulate(value) ==
    CASE value.tag = "Lit" -> Ok(ModulateNumber(value.n))
      [] value.tag = "Nil" -> Ok(NIL)
      [] value.tag = "List" ->
            LET m == ModulateItems(MODULATED_LIST, value.items)
            IN  IF m.status # "ok" THEN Panic ELSE Ok(m.value \o NIL)
      [] value.tag = "Pair" ->
            LET l == Modulate(value.hd)
                r == Modulate(value.tl)
            IN  IF l.status # "ok" \/ r.status # "ok" THEN Panic
                ELSE Ok(MODULATED_LIST \o l.value \o r.value)
      [] OTHER -> Panic

\* slice[from..]: None stands for the out-of-range panic
SliceFrom(slice, from) == SubSeq(slice, from + 1, Len(slice))

RECURSIVE TakeWhileTrue(_)
\* slice.iter().take_while(|&&b| b).count()
TakeWhileTrue(slice) ==
    IF slice = <<>> \/ ~Head(slice) THEN 0 ELSE 1 + TakeWhileTrue(Tail(slice))

RECURSIVE FoldBits(_, _)
\* .fold(0i64, |num, bit| num << 1 | bit)
FoldBits(num, bits) ==
    IF bits = <<>> THEN num
    ELSE FoldBits(2 * num + (IF Head(bits) THEN 1 ELSE 0), Tail(bits))

\* fn demodulate_number: [status, size, value]
DemodulateNumber(sign, slice) ==
    LET width == TakeWhileTrue(slice)
        width_bits == width + 1
        bit_size == width_bits + (width * 4)
    IN  IF width = 0 THEN [status |-> "ok", size |-> 1, value |-> Lit(0)]
        ELSE IF bit_size > Len(slice) THEN [status |-> "panic"]
        ELSE [status |-> "ok", size |-> bit_size,
              value |-> Lit(sign * FoldBits(0, SubSeq(slice, width_bits + 1, bit_size)))]

RECURSIVE DemodulateSlice(_)
\* fn demodulate_slice: [status, size, value]
DemodulateSlice(slice) ==
    IF Len(slice) < 2 THEN [status |-> "panic"]
    ELSE
        LET prefix == SubSeq(slice, 1, 2)
            rest == SliceFrom(slice, 2)
        IN  CASE prefix = SIGN_NEGATIVE \/ prefix = SIGN_POSITIVE ->
                    LET sign == IF prefix = SIGN_POSITIVE THEN 1 ELSE -1
                        num == DemodulateNumber(sign, rest)
                    IN  IF num.status # "ok" THEN num
                        ELSE [num EXCEPT !.size = num.size + 2]
              [] prefix = MODULATED_LIST ->
                    LET first == DemodulateSlice(rest)
                    IN  IF first.status # "ok" THEN first
                        ELSE IF first.size > Len(rest) THEN [status |-> "panic"]
                        ELSE
                            LET second == DemodulateSlice(SliceFrom(rest, first.size))
                            IN  IF second.status # "ok" THEN second
                                ELSE [status |-> "ok",
                                      size |-> first.size + second.size,
                                      value |-> Pair(first.value, second.value)]
              [] OTHER -> [status |-> "ok", size |-> 2, value |-> Nil]

\* pub fn demodulate
Demodulate(value) ==
    LET d == DemodulateSlice(value)
    IN  IF d.status # "ok" THEN Panic ELSE Ok(d.value)

(***************************************************************************)
(* The codec's inputs: the supported value domain { Lit, Nil, Pair }.      *)
(***************************************************************************)
CodecLeaves == {Nil, Lit(1), Lit(-17)}

\* pairs that hold the literal zero, whose encoding has no width field
ZeroPairs ==
    { Pair(Lit(0), Nil), Pair(Nil, Lit(0)), Pair(Pair(Lit(0), Lit(0)), Lit(0)) }

RECURSIVE PairValues(_)
PairValues(depth) ==
    IF depth = 0 THEN CodecLeaves
    ELSE LET sub == PairValues(depth - 1)
         IN  sub \cup {Pair(h, t) : h \in sub, t \in sub}

CodecValues ==
    {Lit(n) : n \in -MaxNum..MaxNum} \cup PairValues(MaxPairDepth) \cup ZeroPairs

InitCodec ==
    /\ cvalue \in CodecValues
    /\ cbits = Idle
    /\ cdecoded = Idle
    /\ pc = "modulate"
    /\ statements = <<>>
    /\ next_stmt = 1
    /\ env = EmptyHeap
    /\ op = Nil
    /\ vm = NewVM(EmptyHeap)
    /\ count = 0
    /\ result = Idle
    /\ driver = NoDriver

\* modulate(&value)
DoModulate ==
    /\ pc = "modulate"
    /\ cbits' = Modulate(cvalue)
    /\ pc' = "demodulate"
    /\ UNCHANGED <<cvalue, cdecoded>>
    /\ UNCHANGED vmVars
    /\ UNCHANGED driverVars

\* demodulate(bits)
DoDemodulate ==
    /\ pc = "demodulate"
    /\ cbits.status = "ok"
    /\ cdecoded' = Demodulate(cbits.value)
    /\ pc' = "decoded"
    /\ UNCHANGED <<cvalue, cbits>>
    /\ UNCHANGED vmVars
    /\ UNCHANGED driverVars

NextCodec == DoModulate \/ DoDemodulate

SpecCodec == InitCodec /\ [][NextCodec]_vars

(***************************************************************************)
(* Lowering, src/src/ast.rs (Canonicalize, lower_symbols) and              *)
(* src/src/stack_interpreter.rs (build_symbol_tree, lower_applies).        *)
(* A Statement is [id, body], body being the Vec<Symbol> in prefix order.  *)
(***************************************************************************)
RECURSIVE RFoldPairs(_, _)
\* v.iter().rfold(acc, |acc, v| Pair(v, acc))
RFoldPairs(items, acc) ==
    IF items = <<>> THEN acc
    ELSE RFoldPairs(SubSeq(items, 1, Len(items) - 1), Pair(items[Len(items)], acc))

\* impl Canonicalize for Symbol
Canonicalize(s) ==
    IF s.tag = "List" THEN RFoldPairs(s.items, Nil) ELSE s

\* pub fn lower_symbols
LowerSymbols(symbols) == [i \in 1..Len(symbols) |-> Canonicalize(symbols[i])]

RECURSIVE LowerAppliesFrom(_, _, _)
\* build_symbol_tree's loop over lowered_symbols.iter().rev(), with
\* lower_applies inlined: i is the index of the instruction to lower next,
\* stack the operand stack (top at the end).  Panics when Ap finds fewer
\* than two operands (pop().unwrap()).
LowerAppliesFrom(lowered, i, stack) ==
    IF i = 0 THEN Ok(stack)
    ELSE IF lowered[i].tag = "Ap"
    THEN IF Len(stack) < 2 THEN Panic
         ELSE LET fun == stack[Len(stack)]
                  arg == stack[Len(stack) - 1]
              IN  LowerAppliesFrom(lowered, i - 1,
                      Append(SubSeq(stack, 1, Len(stack) - 2), Closure(arg, fun)))
    ELSE LowerAppliesFrom(lowered, i - 1, Append(stack, lowered[i]))

\* build_symbol_tree without the assert on the operand stack's length: the
\* variant C26 has to tell from the code
BuildSymbolTreeUnchecked(statement) ==
    LET lowered == LowerSymbols(statement.body)
        built == LowerAppliesFrom(lowered, Len(lowered), <<>>)
    IN  IF built.status # "ok" \/ built.value = <<>> THEN Panic
        ELSE Ok(built.value[Len(built.value)])

\* fn build_symbol_tree: Ok(tree), or Panic when the operand stack does not
\* end with exactly one item (assert_eq!(stack.len(), 1))
BuildSymbolTree(statement) ==
    LET lowered == LowerSymbols(statement.body)
        built == LowerAppliesFrom(lowered, Len(lowered), <<>>)
    IN  IF built.status # "ok" THEN Panic
        ELSE IF Len(built.value) # 1 THEN Panic
        ELSE Ok(built.value[1])

(***************************************************************************)
(* The VM, src/src/stack_interpreter.rs.  vm = [heap, stack]; the stack    *)
(* is a Vec whose top is its last element.                                 *)
(***************************************************************************)
\* the loop bound of run_expression: `if count > 1000 { panic!() }`
CountLimit == 1000
\* nested vm.resolve calls the model follows before it reports the native
\* call stack as exhausted (status "overflow")
MaxDepth == 6


\* an insertion that keeps the value a key already has: the variant C20 has
\* to tell from the code
HeapInsertOnce(heap, id, symbol) ==
    [x \in DOMAIN heap \cup {id} |-> IF x \in DOMAIN heap THEN heap[x] ELSE symbol]

\* env.insert(id, symbol)
HeapInsert(heap, id, symbol) ==
    [x \in DOMAIN heap \cup {id} |-> IF x = id THEN symbol ELSE heap[x]]

\* VM::push
Push(v, symbol) == [v EXCEPT !.stack = Append(v.stack, symbol)]

\* what an arm of run_function hands back: its result and the VM after it
Done(value, v) == [status |-> "ok", value |-> value, vm |-> v]
Fail(status, v) == [status |-> status, vm |-> v]

\* VM::pop, n times: [status, args, vm]; args[1] is the first one popped.
\* stack.pop().unwrap() panics on an empty stack.
PopN(v, n) ==
    IF Len(v.stack) < n THEN [status |-> "panic", vm |-> v]
    ELSE [status |-> "ok",
          args |-> [i \in 1..n |-> v.stack[Len(v.stack) + 1 - i]],
          vm |-> [v EXCEPT !.stack = SubSeq(v.stack, 1, Len(v.stack) - n)]]

\* division rounding toward minus infinity: the variant C6 has to tell
\* from the code
FloorDiv(x, y) ==
    IF y > 0 THEN x \div y ELSE (0 - x) \div (0 - y)

\* i64 division: truncates toward zero
TruncDiv(x, y) ==
    IF (x < 0) = (y < 0) THEN Abs(x) \div Abs(y) ELSE -(Abs(x) \div Abs(y))

RECURSIVE Pow2(_)
Pow2(e) == IF e = 0 THEN 1 ELSE 2 * Pow2(e - 1)

\* the closures handed to stack_lit1: Ok(symbol), or Panic where the
\* arithmetic panics
Lit1Fn(tag, x) ==
    CASE tag = "Inc" -> Ok(Lit(x + 1))
      [] tag = "Dec" -> Ok(Lit(x - 1))
      [] tag = "Neg" -> Ok(Lit(-x))
      \* i64::pow(2, x as u32): exact for 0 <= x <= 62; otherwise the
      \* multiplication overflows (a panic in the test profile)
      [] tag = "Pwr2" -> IF 0 <= x /\ x <= 62 THEN Ok(Lit(Pow2(x))) ELSE Panic

\* the closures handed to stack_lit2
Lit2Fn(tag, x, y) ==
    CASE tag = "Add" -> Ok(Lit(x + y))
      [] tag = "Mul" -> Ok(Lit(x * y))
      [] tag = "Div" -> IF y = 0 THEN Panic ELSE Ok(Lit(TruncDiv(x, y)))
      [] tag = "Lt" -> Ok(IF x < y THEN Sym("T") ELSE Sym("F"))

\* the evaluator's functions call one another: run_expression runs
\* run_function, whose arms resolve their operands with run_expression
RECURSIVE RunExpression(_, _, _)
RECURSIVE Resolve(_, _, _)
RECURSIVE StackLit1(_, _, _)
RECURSIVE StackLit2(_, _, _)
RECURSIVE StackLit2Swapped(_, _, _)
RECURSIVE ModulateForced(_, _, _)
RECURSIVE ModulateShallow(_, _, _)
RECURSIVE StackLit2SecondFirst(_, _, _)
RECURSIVE ArmEqSecondFirst(_, _)
RECURSIVE PutPoint(_, _, _, _)
RECURSIVE DrawItems(_, _, _, _)
RECURSIVE ArmDraw(_, _)
RECURSIVE ArmCheckerboard(_, _)
RECURSIVE ArmIf0(_, _)
RECURSIVE ArmIf0Eager(_, _)
RECURSIVE ArmEq(_, _)
RECURSIVE ArmCar(_, _)
RECURSIVE ArmCdr(_, _)
RECURSIVE ArmIsNil(_, _)
RECURSIVE RunFunctionResult(_, _, _)
RECURSIVE RunFunction(_, _, _)
RECURSIVE LoopTurn(_, _, _)
RECURSIVE RunLoop(_, _, _, _)

\* sequencing: a step that panicked (or exhausted the native stack) ends the
\* computation; otherwise K goes on with the step's outcome
Then(r, K(_)) == IF r.status # "ok" THEN Fail(r.status, r.vm) ELSE K(r)

\* the outcome of an arm from that of the arithmetic (Ok or Panic)
Finish(f, v) == IF f.status # "ok" THEN Fail("panic", v) ELSE Done(f.value, v)

\* Resolve::resolve: a nested run_expression on the same VM
Resolve(symbol, v, depth) ==
    IF depth = 0 THEN Fail("overflow", v) ELSE RunExpression(symbol, v, depth - 1)

\* fn stack_lit1
StackLit1(tag, v, depth) ==
    Then(PopN(v, 1), LAMBDA p :
    Then(Resolve(p.args[1], p.vm, depth), LAMBDA arg :
        IF arg.value.tag # "Lit" THEN Fail("panic", arg.vm)
        ELSE Finish(Lit1Fn(tag, arg.value.n), arg.vm)))

\* stack_lit2 handing the operands to f in the other order: the variant C5
\* has to tell from the code
StackLit2Swapped(tag, v, depth) ==
    Then(PopN(v, 2), LAMBDA p :
    Then(Resolve(p.args[1], p.vm, depth), LAMBDA first :
    Then(Resolve(p.args[2], first.vm, depth), LAMBDA second :
        IF first.value.tag # "Lit" \/ second.value.tag # "Lit"
        THEN Fail("panic", second.vm)
        ELSE Finish(Lit2Fn(tag, second.value.n, first.value.n), second.vm))))

\* fn stack_lit2: both operands are resolved, first then second, before
\* either is matched against Lit
StackLit2(tag, v, depth) ==
    Then(PopN(v, 2), LAMBDA p :
    Then(Resolve(p.args[1], p.vm, depth), LAMBDA first :
    Then(Resolve(p.args[2], first.vm, depth), LAMBDA second :
        IF first.value.tag # "Lit" \/ second.value.tag # "Lit"
        THEN Fail("panic", second.vm)
        ELSE Finish(Lit2Fn(tag, first.value.n, second.value.n), second.vm))))

\* modulate forcing its operand at the top only and encoding the components
\* as they stand: the variant C14 has to tell from the code
ModulateShallow(symbol, v, depth) ==
    Then(Resolve(symbol, v, depth), LAMBDA r : Finish(Modulate(r.value), r.vm))

\* modulations::modulate(&op, vm), the two-argument form run_function calls:
\* forces the operand, recursively through pairs, and encodes it
ModulateForced(symbol, v, depth) ==
    Then(Resolve(symbol, v, depth), LAMBDA r :
        CASE r.value.tag = "Lit" -> Done(ModulateNumber(r.value.n), r.vm)
          [] r.value.tag = "Nil" -> Done(NIL, r.vm)
          [] r.value.tag = "Pair" ->
                Then(ModulateForced(r.value.hd, r.vm, depth), LAMBDA l :
                Then(ModulateForced(r.value.tl, l.vm, depth), LAMBDA t :
                    Done(MODULATED_LIST \o l.value \o t.value, t.vm)))
          [] OTHER -> Fail("panic", r.vm))

\* If0 resolving both branches before it selects one: the variant C2 has
\* to tell from the code
ArmIf0Eager(v, depth) ==
    Then(PopN(v, 3), LAMBDA p :
    Then(Resolve(p.args[1], p.vm, depth), LAMBDA test :
    Then(Resolve(p.args[2], test.vm, depth), LAMBDA first :
    Then(Resolve(p.args[3], first.vm, depth), LAMBDA second :
        IF test.value = Lit(0)
        THEN Done(first.value, second.vm)
        ELSE Done(second.value, second.vm)))))

\* Symbol::If0: only the test is resolved; a branch is handed back as it is
ArmIf0(v, depth) ==
    Then(PopN(v, 3), LAMBDA p :
    Then(Resolve(p.args[1], p.vm, depth), LAMBDA test :
        IF test.value = Lit(0)
        THEN Done(p.args[2], test.vm)
        ELSE Done(p.args[3], test.vm)))

\* Symbol::Eq: both operands are resolved and compared with Symbol's derived ==
ArmEq(v, depth) ==
    Then(PopN(v, 2), LAMBDA p :
    Then(Resolve(p.args[1], p.vm, depth), LAMBDA x :
    Then(Resolve(p.args[2], x.vm, depth), LAMBDA y :
        IF x.value = y.value
        THEN Done(Sym("T"), y.vm)
        ELSE Done(Sym("F"), y.vm))))

\* stack_lit2 and the Eq arm with the second operand resolved before the
\* first: the other order of forcing, which C23 compares the code's with
StackLit2SecondFirst(tag, v, depth) ==
    Then(PopN(v, 2), LAMBDA p :
    Then(Resolve(p.args[2], p.vm, depth), LAMBDA second :
    Then(Resolve(p.args[1], second.vm, depth), LAMBDA first :
        IF first.value.tag # "Lit" \/ second.value.tag # "Lit"
        THEN Fail("panic", first.vm)
        ELSE Finish(Lit2Fn(tag, first.value.n, second.value.n), first.vm))))

ArmEqSecondFirst(v, depth) ==
    Then(PopN(v, 2), LAMBDA p :
    Then(Resolve(p.args[2], p.vm, depth), LAMBDA y :
    Then(Resolve(p.args[1], y.vm, depth), LAMBDA x :
        IF x.value = y.value
        THEN Done(Sym("T"), x.vm)
        ELSE Done(Sym("F"), x.vm))))

\* Symbol::Cons
ArmCons(v, depth) ==
    Then(PopN(v, 2), LAMBDA p : Done(Pair(p.args[1], p.args[2]), p.vm))

\* Symbol::Car: the operand is resolved, and then the head of the pair
ArmCar(v, depth) ==
    Then(PopN(v, 1), LAMBDA p :
    Then(Resolve(p.args[1], p.vm, depth), LAMBDA r :
        IF r.value.tag # "Pair" THEN Fail("panic", r.vm)
        ELSE Resolve(r.value.hd, r.vm, depth)))

\* Symbol::Cdr: the tail is handed back unresolved
ArmCdr(v, depth) ==
    Then(PopN(v, 1), LAMBDA p :
    Then(Resolve(p.args[1], p.vm, depth), LAMBDA r :
        IF r.value.tag # "Pair" THEN Fail("panic", r.vm)
        ELSE Done(r.value.tl, r.vm)))

\* Symbol::IsNil
ArmIsNil(v, depth) ==
    Then(PopN(v, 1), LAMBDA p :
    Then(Resolve(p.args[1], p.vm, depth), LAMBDA r :
        IF r.value = Nil
        THEN Done(Sym("T"), r.vm)
        ELSE Done(Sym("F"), r.vm)))

\* S handing y over without applying it to z, S x y z = x z y: the variant
\* C4 has to tell from the code
ArmSUnapplied(v, depth) ==
    Then(PopN(v, 3), LAMBDA p :
        Done(Closure(p.args[2], Closure(p.args[3], p.args[1])), p.vm))

\* Symbol::S: S x y z = x z (y z)
ArmS(v, depth) ==
    Then(PopN(v, 3), LAMBDA p :
        Done(Closure(Closure(p.args[3], p.args[2]),
                     Closure(p.args[3], p.args[1])), p.vm))

\* Symbol::C: C x y z = x z y
ArmC(v, depth) ==
    Then(PopN(v, 3), LAMBDA p :
        Done(Closure(p.args[2], Closure(p.args[3], p.args[1])), p.vm))

\* Symbol::B: B x y z = x (y z)
ArmB(v, depth) ==
    Then(PopN(v, 3), LAMBDA p :
        Done(Closure(Closure(p.args[3], p.args[2]), p.args[1]), p.vm))

\* GrayImage: its dimensions and the set of its pixels that are not black
Image(width, height, white) ==
    [tag |-> "Image", width |-> width, height |-> height, white |-> white]

\* GrayImage::new(640, 480) in the Draw arm
DrawWidth == 640
DrawHeight == 480

\* Effects::display(&image), as recorded on the VM
DisplayCall(image) == [call |-> "display", image |-> image]

\* vm.lock().unwrap().effects.deref().display(&image)
Display(v, image) == [v EXCEPT !.effects = Append(v.effects, DisplayCall(image))]

\* the body of Draw's loop for one item: the item has to be a Pair whose
\* components resolve to literals; put_pixel panics outside the image
PutPoint(sym, image, v, depth) ==
    IF sym.tag # "Pair" THEN Fail("panic", v)
    ELSE
        Then(Resolve(sym.hd, v, depth), LAMBDA x :
        Then(Resolve(sym.tl, x.vm, depth), LAMBDA y :
            IF x.value.tag # "Lit" \/ y.value.tag # "Lit" THEN Fail("panic", y.vm)
            ELSE IF x.value.n \notin 0..(DrawWidth - 1)
                    \/ y.value.n \notin 0..(DrawHeight - 1)
            THEN Fail("panic", y.vm)
            ELSE Done([image EXCEPT !.white = @ \cup {<<x.value.n, y.value.n>>}],
                      y.vm)))

\* Draw's loop over iter_symbols(vm, x); symbol is SymbolIter's field.
\* SymbolIter::next: Nil ends, a Pair yields its resolved head and goes on
\* with the tail, anything else is resolved, yielded, and ends the iteration
DrawItems(symbol, image, v, depth) ==
    CASE symbol.tag = "Nil" -> Done(image, v)
      [] symbol.tag = "Pair" ->
            Then(Resolve(symbol.hd, v, depth), LAMBDA item :
            Then(PutPoint(item.value, image, item.vm, depth), LAMBDA put :
                DrawItems(symbol.tl, put.value, put.vm, depth)))
      [] OTHER ->
            Then(Resolve(symbol, v, depth), LAMBDA item :
            Then(PutPoint(item.value, image, item.vm, depth), LAMBDA put :
                DrawItems(Nil, put.value, put.vm, depth)))

\* Symbol::Draw: the image is saved to a file under /tmp (taken to succeed)
\* and returned; effects.display is not called
ArmDraw(v, depth) ==
    Then(PopN(v, 1), LAMBDA p :
        DrawItems(p.args[1], Image(DrawWidth, DrawHeight, {}), p.vm, depth))

\* the image Checkerboard's closure builds: pixel (x, y) is 255 * ((x % 2) ^ (y % 2))
CheckerboardImage(x, y) ==
    Image(x, y, {<<i, j>> \in (0..(x - 1)) \X (0..(y - 1)) : (i % 2) # (j % 2)})

\* Symbol::Checkerboard, through stack_lit2: the image is built, displayed,
\* saved to a file under /tmp (taken to succeed) and returned.  A side below
\* zero wraps (x as u32) to a side of some 2^32 pixels; building such an
\* image is not modelled, the arm ends as a panic there.
ArmCheckerboard(v, depth) ==
    Then(PopN(v, 2), LAMBDA p :
    Then(Resolve(p.args[1], p.vm, depth), LAMBDA first :
    Then(Resolve(p.args[2], first.vm, depth), LAMBDA second :
        IF first.value.tag # "Lit" \/ second.value.tag # "Lit"
        THEN Fail("panic", second.vm)
        ELSE IF first.value.n < 0 \/ second.value.n < 0
        THEN Fail("panic", second.vm)
        ELSE Done(CheckerboardImage(first.value.n, second.value.n),
                  Display(second.vm,
                          CheckerboardImage(first.value.n, second.value.n))))))

\* the match of run_function: the result of one reduction of `function`
\* and the VM after it, or the status it ended with
RunFunctionResult(function, v, depth) ==
    LET tag == function.tag
    IN  CASE tag = "Var" ->
                IF function.id \in DOMAIN v.heap
                THEN Done(v.heap[function.id], v)
                ELSE Fail("panic", v)
          [] tag \in {"Lit", "Pair", "Modulated", "Image"} -> Done(function, v)
          [] tag \in {"Inc", "Dec", "Neg", "Pwr2"} -> StackLit1(tag, v, depth)
          [] tag \in {"Add", "Mul", "Div", "Lt"} -> StackLit2(tag, v, depth)
          [] tag = "If0" -> ArmIf0(v, depth)
          [] tag = "Eq" -> ArmEq(v, depth)
          [] tag = "T" -> Then(PopN(v, 2), LAMBDA p : Done(p.args[1], p.vm))
          [] tag = "F" -> Then(PopN(v, 2), LAMBDA p : Done(p.args[2], p.vm))
          [] tag = "Mod" ->
                Then(PopN(v, 1), LAMBDA p :
                Then(ModulateForced(p.args[1], p.vm, depth), LAMBDA vec :
                    Done(Modulated(vec.value), vec.vm)))
          [] tag = "Dem" ->
                Then(PopN(v, 1), LAMBDA p :
                Then(Resolve(p.args[1], p.vm, depth), LAMBDA r :
                    IF r.value.tag # "Modulated" THEN Fail("panic", r.vm)
                    ELSE Finish(Demodulate(r.value.bits), r.vm)))
          [] tag = "I" -> Then(PopN(v, 1), LAMBDA p : Done(p.args[1], p.vm))
          [] tag = "Cons" -> ArmCons(v, depth)
          [] tag = "Car" -> ArmCar(v, depth)
          [] tag = "Cdr" -> ArmCdr(v, depth)
          [] tag = "Nil" -> Done(Nil, v)
          [] tag = "IsNil" -> ArmIsNil(v, depth)
          [] tag = "Draw" -> ArmDraw(v, depth)
          [] tag = "Checkerboard" -> ArmCheckerboard(v, depth)
          [] tag = "S" -> ArmS(v, depth)
          [] tag = "Closure" -> Done(function.body, Push(v, function.captured_arg))
          [] tag = "C" -> ArmC(v, depth)
          [] tag = "B" -> ArmB(v, depth)
          \* Symbol::StoreArg: func and the value are popped, the value is
          \* inserted in the heap under the name, func is handed back
          [] tag = "StoreArg" ->
                Then(PopN(v, 2), LAMBDA p :
                    Done(p.args[1],
                         [p.vm EXCEPT !.heap = HeapInsert(@, function.name, p.args[2])]))
          \* func => unimplemented!("Function not supported")
          [] OTHER -> Fail("panic", v)

\* pub fn run_function: the match, then vm.push(result)
RunFunction(function, v, depth) ==
    Then(RunFunctionResult(function, v, depth), LAMBDA r :
        [status |-> "ok", vm |-> Push(r.vm, r.value)])

RECURSIVE Rebuild(_, _, _)
\* stack.iter().rev().take(n).fold(sym, |acc, el| Closure { captured_arg: el,
\* body: acc }): the arguments are read from the top, and stay on the stack
Rebuild(acc, stack, n) ==
    IF n = 0 \/ stack = <<>> THEN acc
    ELSE Rebuild(Closure(stack[Len(stack)], acc),
                 SubSeq(stack, 1, Len(stack) - 1), n - 1)

\* run_expression's `match sym.deref()`, sym being what vm.pop() gave (p)
\* after run_function(op): go on with sym, or return it
MatchSym(o, p) ==
    LET sym == p.args[1]
    IN  IF sym.tag = "Closure"
        THEN [kind |-> "continue", op |-> sym, vm |-> p.vm]
        ELSE IF o # sym /\ Len(p.vm.stack) >= NumArgs(sym)
        THEN [kind |-> "continue", op |-> sym, vm |-> p.vm]
        ELSE [kind |-> "return",
              value |-> Rebuild(sym, p.vm.stack, NumArgs(sym)),
              vm |-> p.vm]

\* what follows run_function (f) in a turn of the loop
AfterRunFunction(o, f) ==
    IF f.status # "ok" THEN [kind |-> f.status, vm |-> f.vm]
    ELSE MatchSym(o, PopN(f.vm, 1))

\* one turn of run_expression's loop, after the count check:
\* run_function, vm.pop(), and the match on what was popped
LoopTurn(o, v, depth) == AfterRunFunction(o, RunFunction(o, v, depth))

RECURSIVE AfterTurn(_, _, _)
\* the loop after a turn t: the next turn, or the end of run_expression
AfterTurn(t, c, depth) ==
    IF t.kind = "continue" THEN RunLoop(t.op, t.vm, c + 1, depth)
    ELSE IF t.kind = "return" THEN Done(t.value, t.vm)
    ELSE Fail(t.kind, t.vm)

\* run_expression's loop from the state (op, count)
RunLoop(o, v, c, depth) ==
    IF c > CountLimit THEN Fail("panic", v)
    ELSE AfterTurn(LoopTurn(o, v, depth), c, depth)

\* pub fn run_expression
RunExpression(symbol, v, depth) == RunLoop(symbol, v, 0, depth)

\* what run hands to its caller: the value, or the way the run ended
Outcome(r) == IF r.status = "ok" THEN Ok(r.value) ELSE [status |-> r.status]

\* pub fn run: a fresh VM over a clone of the environment
Run(symbol, environment) ==
    Outcome(RunExpression(symbol, NewVM(environment), MaxDepth))

(***************************************************************************)
(* stack_interpret as a state machine: the statements are lowered and      *)
(* inserted one by one, then the last statement's tree is run; each turn   *)
(* of the outermost run_expression loop is one step.                       *)
(***************************************************************************)
Statement(id, body) == [id |-> id, body |-> body]

\* for statement in statements { env.insert(statement.0, build_symbol_tree(&statement)) }
InsertStatement ==
    /\ pc = "build"
    /\ next_stmt <= Len(statements)
    /\ LET tree == BuildSymbolTree(statements[next_stmt])
       IN  IF tree.status # "ok"
           THEN /\ result' = Panic
                /\ pc' = "done"
                /\ UNCHANGED <<env, next_stmt>>
           ELSE /\ env' = HeapInsert(env, statements[next_stmt].id, tree.value)
                /\ next_stmt' = next_stmt + 1
                /\ UNCHANGED <<result, pc>>
    /\ UNCHANGED <<statements, op, vm, count>>
    /\ UNCHANGED codecVars
    /\ UNCHANGED driverVars

\* let last_rvalue = env[&last_statement_id].clone(); run(last_rvalue, &env)
StartRun ==
    /\ pc = "build"
    /\ next_stmt > Len(statements)
    /\ op' = env[statements[Len(statements)].id]
    /\ vm' = NewVM(env)
    /\ count' = 0
    /\ pc' = "run"
    /\ UNCHANGED <<statements, next_stmt, env, result>>
    /\ UNCHANGED codecVars
    /\ UNCHANGED driverVars

\* one turn of the loop of the outermost run_expression
Step ==
    /\ pc = "run"
    /\ IF count > CountLimit
       THEN /\ result' = Panic
            /\ pc' = "done"
            /\ UNCHANGED <<op, vm, count>>
       ELSE \E t \in {LoopTurn(op, vm, MaxDepth)} :
                IF t.kind = "continue"
                THEN /\ op' = t.op
                     /\ vm' = t.vm
                     /\ count' = count + 1
                     /\ UNCHANGED <<result, pc>>
                ELSE /\ result' = IF t.kind = "return" THEN Ok(t.value)
                                  ELSE [status |-> t.kind]
                     /\ vm' = t.vm
                     /\ pc' = "done"
                     /\ UNCHANGED <<op, count>>
    /\ UNCHANGED <<statements, next_stmt, env>>
    /\ UNCHANGED codecVars
    /\ UNCHANGED driverVars

Next == InsertStatement \/ StartRun \/ Step

\* the whole of stack_interpret, as the function the steps above compute
StackInterpret(stmts) ==
    LET trees == [i \in 1..Len(stmts) |-> BuildSymbolTree(stmts[i])]
        heapUpTo[i \in 0..Len(stmts)] ==
            IF i = 0 THEN EmptyHeap
            ELSE HeapInsert(heapUpTo[i - 1], stmts[i].id, trees[i].value)
    IN  IF \E i \in 1..Len(stmts) : trees[i].status # "ok" THEN Panic
        ELSE Run(heapUpTo[Len(stmts)][stmts[Len(stmts)].id], heapUpTo[Len(stmts)])

(***************************************************************************)
(* Programs.  A body is written in the prefix token order the parser       *)
(* emits: TAp(f, x) is `ap f x`.                                           *)
(***************************************************************************)
\* literals of the programs range over -MaxLit..MaxLit
MaxLit == 5
\* exponents given to pwr2 range over 0..MaxExp
MaxExp == 29

TLit(n) == <<Lit(n)>>
TSym(tag) == <<Sym(tag)>>
TVar(id) == <<Var(id)>>
TAp(f, x) == <<Ap>> \o f \o x
T1(tag, x) == TAp(TSym(tag), x)
T2(tag, x, y) == TAp(TAp(TSym(tag), x), y)
T3(tag, x, y, z) == TAp(TAp(TAp(TSym(tag), x), y), z)

\* definitions every program starts with; the entry point, "main", follows
Prelude ==
    << Statement("two", TLit(2)),
       Statement("loop", T1("Inc", TVar("loop"))),
       Statement("add1", T1("Add", TLit(1))) >>

Program(body) == Prelude \o <<Statement("main", body)>>

LitToks == {TLit(n) : n \in -MaxLit..MaxLit}

\* operand expressions that force to a literal
NumOperands ==
    LitToks \cup
    { T1("Inc", TLit(1)),
      T2("Add", TLit(1), TLit(2)),
      T1("Car", T2("Cons", TLit(2), TSym("Nil"))),
      T3("If0", TLit(0), TLit(1), TVar("loop")),
      TVar("two"),
      T1("I", TLit(-3)),
      T2("T", TLit(4), TVar("loop")),
      TAp(TVar("add1"), TLit(-1)) }

ArithPrograms ==
    {T2(o, x, y) : o \in {"Add", "Mul", "Div", "Lt"}, x \in NumOperands, y \in NumOperands}
    \cup {T1(o, x) : o \in {"Inc", "Dec", "Neg", "Pwr2"}, x \in NumOperands}
    \cup {T1("Pwr2", TLit(n)) : n \in 0..MaxExp}

\* conditions of If0, and branches: values, operators, an under-applied
\* operator, the entry point itself, a branch that panics when forced
\* (car of a literal) and one whose forcing never ends (loop)
Conds ==
    { TLit(0), TLit(1), TLit(-1), T1("Dec", TLit(1)), TVar("two"), TSym("Nil") }
Branches ==
    { TLit(3), TSym("Inc"), T1("Add", TLit(1)), TVar("main"),
      T1("Car", TLit(1)), TVar("loop"), T2("Cons", TLit(1), TSym("Nil")) }

LazyProgram == Program(T3("If0", TLit(1), TVar("main"), TLit(3)))

BranchPrograms ==
    {T3("If0", c, x, y) : c \in Conds, x \in Branches, y \in Branches}
    \cup {T2(o, x, y) : o \in {"T", "F"}, x \in Branches, y \in Branches}
    \cup {TAp(T3("If0", c, TVar("main"), TVar("add1")), TLit(2)) : c \in Conds}

CombX == { TSym("Add"), TSym("Mul"), TSym("T"), TSym("Cons"), TSym("I"), TSym("Lt") }
CombY == { TSym("Inc"), TSym("Dec"), TSym("I"), TSym("Car"), T1("Add", TLit(1)),
           TLit(1), TVar("two") }
CombZ == { TLit(1), TLit(-2), TSym("Nil"), T2("Cons", TLit(1), TSym("Nil")),
           TSym("Inc"), TVar("two") }

CombPrograms ==
    {T3(o, x, y, z) : o \in {"S", "C", "B"}, x \in CombX, y \in CombY, z \in CombZ}

ListElems ==
    { TLit(1), TSym("Nil"), TSym("T"), TSym("Inc"), T1("Add", TLit(1)),
      T2("Cons", TLit(1), TSym("Nil")), T1("Inc", TLit(1)), TVar("loop"), TVar("two") }

ListPrograms ==
    {T1(o, T2("Cons", x, y)) : o \in {"Car", "Cdr", "IsNil"}, x \in ListElems, y \in ListElems}
    \cup {T2("Cons", x, y) : x \in ListElems, y \in ListElems}
    \cup {T1("IsNil", TSym("Nil"))}

EqOperands ==
    { TLit(0), TLit(1), TSym("Nil"), TSym("T"), TSym("F"),
      T2("Cons", TLit(1), TLit(2)), T2("Cons", TLit(1), TLit(3)),
      T1("Inc", TLit(0)), T2("Cons", T1("Inc", TLit(0)), TLit(2)),
      T1("Add", TLit(1)) }

EqPrograms == {T2("Eq", x, y) : x \in EqOperands, y \in EqOperands}

\* programs of the repository's tests that the families above do not hold
TestPrograms ==
    { T2("I", TSym("I"), TLit(5)),
      TVar("main"),
      TSym("Inc"),
      TAp(TVar("add1"), TLit(2)),
      T1("Dem", T1("Mod", T2("Cons", TLit(1), T2("Cons", TLit(2), TSym("Nil"))))),
      T3("S", TSym("Mul"), T1("Add", TLit(1)), TLit(6)) }

Bodies ==
    ArithPrograms \cup BranchPrograms \cup CombPrograms \cup ListPrograms
        \cup EqPrograms \cup TestPrograms

InitWith(bodies) ==
    /\ statements \in {Program(b) : b \in bodies}
    /\ pc = "build"
    /\ next_stmt = 1
    /\ env = EmptyHeap
    /\ op = Nil
    /\ vm = NewVM(EmptyHeap)
    /\ count = 0
    /\ result = Idle
    /\ driver = NoDriver
    /\ cvalue = Nil
    /\ cbits = Idle
    /\ cdecoded = Idle

Init == InitWith(Bodies)
Spec == Init /\ [][Next]_vars

SpecArith == InitWith(ArithPrograms) /\ [][Next]_vars
SpecBranch == InitWith(BranchPrograms) /\ [][Next]_vars
SpecComb == InitWith(CombPrograms) /\ [][Next]_vars
SpecList == InitWith(ListPrograms) /\ [][Next]_vars
SpecEq == InitWith(EqPrograms) /\ [][Next]_vars

(***************************************************************************)
(* Claims about the codec, checked under SpecCodec.                        *)
(***************************************************************************)

\* C1: for every value v built only from Lit, Nil and Pair (pairs nested to
\* any depth in head or tail position), demodulate(modulate(v)) = v.
C1_RoundTrip ==
    pc = "decoded" => cdecoded = Ok(cvalue)

RECURSIVE Pow(_, _)
Pow(b, e) == IF e = 0 THEN 1 ELSE b * Pow(b, e - 1)

\* the smallest k with n < 2^(4k), for n > 0
Nibbles(n) == CHOOSE k \in 1..4 : n < Pow(16, k) /\ (k = 1 \/ n >= Pow(16, k - 1))

\* C9: for every non-zero literal n, modulate(Lit n) is the sign bits (01 if
\* n > 0, 10 if n < 0), then k ones and a terminating 0, then |n| written in
\* exactly 4k bits most-significant-bit first, where k is the smallest integer
\* with |n| < 2^(4k); the total length is 3 + 5k.  modulate(Lit 0) is 010.
C9_NumberLayout ==
    (pc # "modulate" /\ cvalue.tag = "Lit") =>
        /\ cbits.status = "ok"
        /\ cvalue.n = 0 => cbits.value = <<FALSE, TRUE, FALSE>>
        /\ cvalue.n # 0 =>
            LET b == cbits.value
                a == Abs(cvalue.n)
                k == Nibbles(a)
            IN  /\ Len(b) = 3 + 5 * k
                /\ b[1] = (cvalue.n < 0)
                /\ b[2] = (cvalue.n > 0)
                /\ \A i \in 1..k : b[2 + i]
                /\ ~b[3 + k]
                /\ \A i \in 1..(4 * k) :
                      b[3 + k + i] = ((a \div Pow(2, 4 * k - i)) % 2 = 1)

\* C9's case: a negative literal needing three nibbles has been modulated
C9_Witness ==
    pc # "modulate" /\ cvalue = Lit(-256) /\ cbits.status = "ok" /\ Len(cbits.value) = 18

\* C10: modulate(Nil) is 00, and modulate(Pair(h, t)) is 11 followed by
\* modulate(h) followed by modulate(t), with nothing else added.
C10_CompositeLayout ==
    pc # "modulate" =>
        /\ cvalue = Nil => cbits = Ok(<<FALSE, FALSE>>)
        /\ cvalue.tag = "Pair" =>
              /\ cbits.status = "ok"
              /\ cbits.value = <<TRUE, TRUE>> \o Modulate(cvalue.hd).value
                                               \o Modulate(cvalue.tl).value

\* C10's case: a pair holding a pair in its head and a literal in its tail
C10_Witness ==
    /\ pc # "modulate"
    /\ cvalue = Pair(Pair(Lit(1), Nil), Lit(-17))
    /\ cbits.status = "ok"
    /\ Len(cbits.value) = 2 + 12 + 13

(***************************************************************************)
(* Claims about the evaluator.  Entry is the tree of the program's entry   *)
(* point; App(f, a) is the tree of `ap f a`.                               *)
(***************************************************************************)
Entry == env["main"]
App(f, a) == Closure(a, f)

IsApp1(t, tag) == t.tag = "Closure" /\ t.body = Sym(tag)
IsApp2(t, tag) == t.tag = "Closure" /\ IsApp1(t.body, tag)
IsApp3(t, tag) == t.tag = "Closure" /\ IsApp2(t.body, tag)

RECURSIVE SpineHead(_)
\* the head of a closure chain, and the number of arguments it is applied to
SpineHead(s) == IF s.tag = "Closure" THEN SpineHead(s.body) ELSE s
RECURSIVE SpineArgs(_)
SpineArgs(s) == IF s.tag = "Closure" THEN 1 + SpineArgs(s.body) ELSE 0

Operators ==
    { "Inc", "Dec", "Neg", "Pwr2", "Add", "Mul", "Div", "Lt", "Eq", "If0",
      "T", "F", "I", "S", "C", "B", "Cons", "Car", "Cdr", "IsNil", "Mod", "Dem" }

\* weak-head normal form: not a bare Var, and not an operator applied to at
\* least as many arguments as its arity
IsWhnf(s) ==
    /\ s.tag # "Var"
    /\ s.tag = "Closure" =>
          LET h == SpineHead(s)
          IN  h.tag \in Operators /\ SpineArgs(s) < NumArgs(h)

\* what evaluating the expression t yields: t itself when it already is in
\* weak-head normal form, the result of running it otherwise
ValueOf(t) == IF IsWhnf(t) THEN Ok(t) ELSE Run(t, env)

\* the state after the turn that reduces a branching operator to sel:
\* the loop goes on with sel, or it has returned sel
ReducedTo(sel) ==
    \/ pc' = "run" /\ op' = sel
    \/ pc' = "done" /\ result' = Ok(sel)

\* C2: the branching operators discard the unselected branch without ever
\* forcing it: If0 c x y forces only c and reduces to x when c is Lit(0) and
\* to y otherwise; T x y reduces to x and F x y to y, whatever the other
\* branch is (one that panics or never ends included).  In particular the
\* self-referential program `main = ap ap ap if0 1 main 3` ends with Lit(3).
C2_Laziness ==
    /\ [][ ( /\ pc = "run"
             /\ count <= CountLimit
             /\ op.tag \in {"If0", "T", "F"}
             /\ Len(vm.stack) >= NumArgs(op) )
           => LET n == Len(vm.stack)
              IN  CASE op.tag = "T" -> ReducedTo(vm.stack[n])
                    [] op.tag = "F" -> ReducedTo(vm.stack[n - 1])
                    [] op.tag = "If0" ->
                         LET c == Run(vm.stack[n], vm.heap)
                         IN  c.status = "ok" =>
                               IF c.value = Lit(0)
                               THEN ReducedTo(vm.stack[n - 1])
                               ELSE ReducedTo(vm.stack[n - 2]) ]_vars
    /\ [](pc = "done" /\ statements = LazyProgram => result = Ok(Lit(3)))

\* C2's case: the program whose unselected branch is the program itself
\* has ended, with 3
C2_Witness ==
    pc = "done" /\ statements = LazyProgram /\ result = Ok(Lit(3))

\* C3: whenever stack_interpret returns, the result is in weak-head normal
\* form: never a bare Var and never an operator applied to at least
\* arity-many arguments.
C3_ResultIsWhnf ==
    (pc = "done" /\ result.status = "ok") => IsWhnf(result.value)

\* C4: S x y z evaluates to the same value as (x z) (y z), C x y z to the
\* same value as (x z) y, and B x y z to the same value as x (y z).
C4_Combinators ==
    pc = "done" =>
        \A o \in {"S", "C", "B"} :
            IsApp3(Entry, o) =>
                LET x == Entry.body.body.captured_arg
                    y == Entry.body.captured_arg
                    z == Entry.captured_arg
                    rhs == CASE o = "S" -> App(App(x, z), App(y, z))
                             [] o = "C" -> App(App(x, z), y)
                             [] o = "B" -> App(x, App(y, z))
                IN  result = Run(rhs, env)

\* C4's case: S add inc 1 has been evaluated, to add 1 (inc 1) = 3
C4_Witness ==
    /\ pc = "done"
    /\ statements = Program(T3("S", TSym("Add"), TSym("Inc"), TLit(1)))
    /\ result = Ok(Lit(3))

\* the integer operations the numeric operators stand for
UnaryResult(o, n) ==
    CASE o = "Inc" -> Lit(n + 1)
      [] o = "Dec" -> Lit(n - 1)
      [] o = "Neg" -> Lit(0 - n)
      [] o = "Pwr2" -> Lit(Pow(2, n))
BinaryResult(o, x, y) ==
    CASE o = "Add" -> Lit(x + y)
      [] o = "Mul" -> Lit(x * y)
      [] o = "Lt" -> IF x < y THEN Sym("T") ELSE Sym("F")

\* C5: each numeric operator applied to operands that force to literals
\* yields the result of the corresponding integer operation, with the first
\* applied argument as the left operand: Inc n = n+1, Dec n = n-1,
\* Neg n = -n, Pwr2 n = 2^n for 0 <= n <= 62, Add x y = x+y, Mul x y = x*y,
\* Lt x y = T exactly when x < y.
C5_Numeric ==
    pc = "done" =>
        /\ \A o \in {"Inc", "Dec", "Neg", "Pwr2"} :
              IsApp1(Entry, o) =>
                  LET n == Run(Entry.captured_arg, env)
                  IN  ( /\ n.status = "ok"
                        /\ n.value.tag = "Lit"
                        /\ o = "Pwr2" => (0 <= n.value.n /\ n.value.n <= 62) )
                      => result = Ok(UnaryResult(o, n.value.n))
        /\ \A o \in {"Add", "Mul", "Lt"} :
              IsApp2(Entry, o) =>
                  LET x == Run(Entry.body.captured_arg, env)
                      y == Run(Entry.captured_arg, env)
                  IN  ( /\ x.status = "ok" /\ x.value.tag = "Lit"
                        /\ y.status = "ok" /\ y.value.tag = "Lit" )
                      => result = Ok(BinaryResult(o, x.value.n, y.value.n))

\* C5's case: lt applied to 2 and then to an operand that forces to 3
C5_Witness ==
    /\ pc = "done"
    /\ statements = Program(T2("Lt", TLit(2), T2("Add", TLit(1), TLit(2))))
    /\ result = Ok(Sym("T"))

\* C6: for all literals x and y with y # 0, Div x y is the quotient of x by
\* y truncated toward zero, x being the first applied argument: the
\* remainder x - q*y is smaller than y in magnitude and, unless it is zero,
\* has the sign of x.
C6_DivTruncates ==
    (pc = "done" /\ IsApp2(Entry, "Div")) =>
        LET x == Run(Entry.body.captured_arg, env)
            y == Run(Entry.captured_arg, env)
        IN  ( /\ x.status = "ok" /\ x.value.tag = "Lit"
              /\ y.status = "ok" /\ y.value.tag = "Lit"
              /\ y.value.n # 0 )
            => /\ result.status = "ok"
               /\ result.value.tag = "Lit"
               /\ LET r == x.value.n - result.value.n * y.value.n
                  IN  /\ Abs(r) < Abs(y.value.n)
                      /\ r = 0 \/ (r > 0) = (x.value.n > 0)

\* C6's case: div 5 -3 has been evaluated, to -1
C6_Witness ==
    /\ pc = "done"
    /\ statements = Program(T2("Div", TLit(5), TLit(-3)))
    /\ result = Ok(Lit(-1))

IsAtom(s) == s.tag \in {"Lit", "Nil", "T", "F"}

\* C7: Eq x y forces both operands to WHNF and yields T exactly when both
\* are the same atom (equal Lit values, both Nil, both T, both F) and F
\* otherwise; two Pair operands are never reported equal.
C7_EqOnAtoms ==
    (pc = "done" /\ IsApp2(Entry, "Eq")) =>
        LET x == ValueOf(Entry.body.captured_arg)
            y == ValueOf(Entry.captured_arg)
        IN  (x.status = "ok" /\ y.status = "ok") =>
                result = Ok(IF IsAtom(x.value) /\ x.value = y.value
                            THEN Sym("T") ELSE Sym("F"))

\* C8: Car applied to Cons x y evaluates to x, Cdr applied to Cons x y
\* evaluates to y, IsNil Nil is T and IsNil of any Pair is F; Cons builds
\* Pair(x, y) without forcing either component.
C8_Lists ==
    pc = "done" =>
        /\ (IsApp1(Entry, "Car") /\ IsApp2(Entry.captured_arg, "Cons")) =>
              LET x == ValueOf(Entry.captured_arg.body.captured_arg)
              IN  x.status = "ok" => result = x
        /\ (IsApp1(Entry, "Cdr") /\ IsApp2(Entry.captured_arg, "Cons")) =>
              LET y == ValueOf(Entry.captured_arg.captured_arg)
              IN  y.status = "ok" => result = y
        /\ (IsApp1(Entry, "IsNil") /\ Entry.captured_arg = Nil) =>
              result = Ok(Sym("T"))
        /\ (IsApp1(Entry, "IsNil") /\ IsApp2(Entry.captured_arg, "Cons")) =>
              result = Ok(Sym("F"))
        /\ IsApp2(Entry, "Cons") =>
              result = Ok(Pair(Entry.body.captured_arg, Entry.captured_arg))

(***************************************************************************)
(* The codec on list literals: Symbol::List handed to modulate directly.   *)
(***************************************************************************)
\* list literals handed to the codec hold up to MaxListLen elements
MaxListLen == 2

CodecListItems == {Nil} \cup {Lit(n) : n \in -3..3}

RECURSIVE ListsOfLen(_)
ListsOfLen(n) ==
    IF n = 0 THEN {<<>>}
    ELSE {Append(l, e) : l \in ListsOfLen(n - 1), e \in CodecListItems}

CodecLists == UNION {{List(l) : l \in ListsOfLen(n)} : n \in 0..MaxListLen}

InitCodecList ==
    /\ cvalue \in CodecLists
    /\ cbits = Idle
    /\ cdecoded = Idle
    /\ pc = "modulate"
    /\ statements = <<>>
    /\ next_stmt = 1
    /\ env = EmptyHeap
    /\ op = Nil
    /\ vm = NewVM(EmptyHeap)
    /\ count = 0
    /\ result = Idle
    /\ driver = NoDriver

SpecCodecList == InitCodecList /\ [][NextCodec]_vars

\* C11: for every list literal List([e1, ..., en]) of supported values, of
\* any length n >= 0, modulate(List([e1, ..., en])) equals modulate of the
\* right-nested pair it denotes, Pair(e1, Pair(e2, ... Pair(en, Nil))), which
\* is Nil for n = 0.
C11_ListAsPairs ==
    (pc # "modulate" /\ cvalue.tag = "List")
        => cbits = Modulate(Canonicalize(cvalue))

\* the one length at which the List arm and the nested pairs agree
C11_SingletonAgrees ==
    (pc # "modulate" /\ cvalue.tag = "List" /\ Len(cvalue.items) = 1)
        => cbits = Modulate(Canonicalize(cvalue))

(***************************************************************************)
(* The codec driven from the wire: demodulate applied to an arbitrary bit  *)
(* string, as Dem does with a Modulated received from outside, and         *)
(* modulate applied to what it decoded.                                    *)
(***************************************************************************)
\* bit strings handed to demodulate hold up to MaxBits bits
MaxBits == 13

BitStrings == UNION {[1..n -> BOOLEAN] : n \in 0..MaxBits}

InitDecode ==
    /\ cvalue \in {Modulated(s) : s \in BitStrings}
    /\ cbits = Ok(cvalue.bits)
    /\ cdecoded = Idle
    /\ pc = "demodulate"
    /\ statements = <<>>
    /\ next_stmt = 1
    /\ env = EmptyHeap
    /\ op = Nil
    /\ vm = NewVM(EmptyHeap)
    /\ count = 0
    /\ result = Idle
    /\ driver = NoDriver

\* modulate(&demodulate(bits))
DoRemodulate ==
    /\ pc = "decoded"
    /\ cdecoded.status = "ok"
    /\ cbits' = Modulate(cdecoded.value)
    /\ pc' = "remodulated"
    /\ UNCHANGED <<cvalue, cdecoded>>
    /\ UNCHANGED vmVars
    /\ UNCHANGED driverVars

NextDecode == DoDemodulate \/ DoRemodulate

SpecDecode == InitDecode /\ [][NextDecode]_vars

\* C12: the codec is a bijection between supported values and the bit
\* strings it accepts: every bit string s that demodulate decodes satisfies
\* modulate(demodulate(s)) = s, so no two different accepted bit strings
\* (010 and 100, or a number written with a wider-than-minimal width prefix)
\* decode to the same value.
C12_AcceptedAreCanonical ==
    pc = "remodulated" => cbits = Ok(cvalue.bits)

(***************************************************************************)
(* modulate_number at the full width of Number (i64).  A word is the       *)
(* two's complement representation, most significant bit first.            *)
(***************************************************************************)
\* pub type Number = i64
NumberBits == 64

Words == [1..NumberBits -> BOOLEAN]

\* 2^k, for k = NumberBits - 1 the minimum value
OneHot(k) == [i \in 1..NumberBits |-> i = NumberBits - k]
\* 2^k - 1, for k = NumberBits - 1 the maximum value
LowOnes(k) == [i \in 1..NumberBits |-> i > NumberBits - k]
\* -(2^(NumberBits - k)), for k = NumberBits the value -1
HighOnes(k) == [i \in 1..NumberBits |-> i <= k]

MinWord == OneHot(NumberBits - 1)
MaxWord == LowOnes(NumberBits - 1)
ZeroWord == LowOnes(0)

RECURSIVE AddOneFrom(_, _)
\* w + 1 with the carry entering at bit i, wrapping
AddOneFrom(w, i) ==
    IF i = 0 THEN w
    ELSE IF w[i] THEN AddOneFrom([w EXCEPT ![i] = FALSE], i - 1)
    ELSE [w EXCEPT ![i] = TRUE]

\* wrapping negation: !w + 1
WrappingNeg(w) == AddOneFrom([i \in 1..NumberBits |-> ~w[i]], NumberBits)

\* x.leading_zeros()
LeadingZeros(w) ==
    IF w = ZeroWord THEN NumberBits
    ELSE (CHOOSE i \in 1..NumberBits : w[i] /\ \A j \in 1..(i - 1) : ~w[j]) - 1

\* i64::abs: overflows on the minimum value, which panics when the build
\* checks overflow and wraps to the minimum value itself otherwise
AbsWord(w, overflow_checks) ==
    IF ~w[1] THEN Ok(w)
    ELSE IF w = MinWord /\ overflow_checks THEN Panic
    ELSE Ok(WrappingNeg(w))

\* fn modulate_number on a word
ModulateWord(value, overflow_checks) ==
    IF value = ZeroWord THEN Ok(ZERO)
    ELSE
        LET sign == IF ~value[1] THEN SIGN_POSITIVE ELSE SIGN_NEGATIVE
            abs == AbsWord(value, overflow_checks)
        IN  IF abs.status # "ok" THEN Panic
            \* log_2: assert!(x > 0)
            ELSE IF abs.value[1] \/ abs.value = ZeroWord THEN Panic
            ELSE
                LET number_of_bits_for_number ==
                        (NumberBits - LeadingZeros(abs.value) - 1) + 1
                    remainder == IF number_of_bits_for_number % 4 # 0 THEN 1 ELSE 0
                    width == (number_of_bits_for_number \div 4 + remainder) * 4
                    ones == Repeat(TRUE, width \div 4)
                    digits == [i \in 1..number_of_bits_for_number |->
                                  abs.value[NumberBits - number_of_bits_for_number + i]]
                    encoded == Repeat(FALSE, width - Len(digits)) \o digits
                IN  Ok(sign \o ones \o <<FALSE>> \o encoded)

WideWords ==
    {OneHot(k) : k \in 0..(NumberBits - 1)}
        \cup {LowOnes(k) : k \in 0..(NumberBits - 1)}
        \cup {HighOnes(k) : k \in 1..NumberBits}

InitWide ==
    /\ cvalue \in {[tag |-> "Lit", word |-> w] : w \in WideWords}
    /\ cbits = Idle
    /\ cdecoded = Idle
    /\ pc = "modulate"
    /\ statements = <<>>
    /\ next_stmt = 1
    /\ env = EmptyHeap
    /\ op = Nil
    /\ vm = NewVM(EmptyHeap)
    /\ count = 0
    /\ result = Idle
    /\ driver = NoDriver

\* modulate(&Lit(value)), under either build
DoModulateWide ==
    /\ pc = "modulate"
    /\ \E overflow_checks \in BOOLEAN :
          cbits' = ModulateWord(cvalue.word, overflow_checks)
    /\ pc' = "modulated"
    /\ UNCHANGED <<cvalue, cdecoded>>
    /\ UNCHANGED vmVars
    /\ UNCHANGED driverVars

SpecWide == InitWide /\ [][DoModulateWide]_vars

\* C13: modulate is total on literals: for every signed 64-bit integer n,
\* the minimum value -2^63 and the maximum 2^63 - 1 included, modulate(Lit n)
\* returns a bit string and does not fail.
C13_TotalOnLiterals ==
    pc = "modulated" => cbits.status = "ok"

\* every literal but the minimum value is encoded, in 2 + k + 1 + 4k bits
C13_AllButMinimum ==
    (pc = "modulated" /\ cvalue.word # MinWord)
        => /\ cbits.status = "ok"
           /\ \/ cvalue.word = ZeroWord
              \/ \E k \in 1..(NumberBits \div 4) : Len(cbits.value) = 3 + 5 * k

(***************************************************************************)
(* Mod applied to operands that are still unevaluated Cons applications.   *)
(***************************************************************************)
ModHeads ==
    { TLit(1), TLit(-3), TLit(0), TSym("Nil"), T1("Inc", TLit(1)), TVar("two"),
      T2("Add", TLit(1), TLit(2)), T2("Cons", TLit(1), TSym("Nil")),
      T2("Cons", T1("Inc", TLit(1)), TVar("two")) }
ModTails ==
    { TSym("Nil"), TLit(2), T1("Dec", TLit(1)),
      T2("Cons", TLit(2), TSym("Nil")),
      T2("Cons", T1("Inc", TLit(1)), T2("Cons", TVar("two"), TSym("Nil"))) }

ModPrograms ==
    {T1("Mod", T2("Cons", h, t)) : h \in ModHeads, t \in ModTails}
        \cup {T1("Mod", h) : h \in ModHeads}

SpecMod == InitWith(ModPrograms) /\ [][Next]_vars

RECURSIVE Denote(_)
\* the value an operand of ModPrograms stands for, read off its tree
Denote(t) ==
    CASE t.tag = "Var" -> Denote(env[t.id])
      [] IsApp2(t, "Cons") -> Pair(Denote(t.body.captured_arg), Denote(t.captured_arg))
      [] IsApp2(t, "Add") ->
            Lit(Denote(t.body.captured_arg).n + Denote(t.captured_arg).n)
      [] IsApp1(t, "Inc") -> Lit(Denote(t.captured_arg).n + 1)
      [] IsApp1(t, "Dec") -> Lit(Denote(t.captured_arg).n - 1)
      [] OTHER -> t

\* C14: Mod x forces x fully, recursively through pairs, before encoding:
\* when x evaluates to nested, still-unevaluated Cons applications, `ap mod x`
\* yields Modulated(bits), bits being the encoding of the completely forced
\* Pair structure.
C14_ModForces ==
    (pc = "done" /\ IsApp1(Entry, "Mod"))
        => result = Ok(Modulated(Modulate(Denote(Entry.captured_arg)).value))

\* C14's case: mod of cons (inc 1) (cons two nil), pairs nested twice in the
\* tail with unevaluated elements, has been evaluated
C14_Witness ==
    /\ pc = "done"
    /\ statements =
          Program(T1("Mod", T2("Cons", TLit(1),
              T2("Cons", T1("Inc", TLit(1)), T2("Cons", TVar("two"), TSym("Nil"))))))
    /\ result = Ok(Modulated(Modulate(
          Pair(Lit(1), Pair(Lit(2), Pair(Lit(2), Nil)))).value))

(***************************************************************************)
(* Send.  run_function has no arm for Symbol::Send (the arm is commented   *)
(* out, src/src/stack_interpreter.rs line 250), so Send reaches the        *)
(* catch-all arm `func => unimplemented!(...)`.                            *)
(***************************************************************************)
SendPrograms ==
    {T1("Send", T2("Cons", h, t)) : h \in ModHeads, t \in ModTails}
        \cup {T1("Send", h) : h \in ModHeads}

SpecSend == InitWith(SendPrograms) /\ [][Next]_vars

\* Effects::send(content) and its reply, as recorded on the VM
SendCall(content, reply) == [call |-> "send", content |-> content, reply |-> reply]

\* the calls of send among the calls recorded on the VM
SendCalls(v) == SelectSeq(v.effects, LAMBDA c : c.call = "send")

\* C15: evaluating `ap send x` forces x fully, calls the effects boundary's
\* send exactly once with the modulation of x, and returns the demodulation
\* of the reply (NullEffects replies with the content it was sent); send is
\* never called a second time for the same Send.
C15_SendOnce ==
    (pc = "done" /\ IsApp1(Entry, "Send"))
        => LET bits == Modulate(Denote(Entry.captured_arg)).value
           IN  /\ SendCalls(vm) = <<SendCall(bits, bits)>>
               /\ result = Demodulate(bits)

(***************************************************************************)
(* The picture operators.                                                  *)
(***************************************************************************)
\* sides given to checkerboard range over 1..MaxSide
MaxSide == 3

SideOperands ==
    {TLit(n) : n \in 1..MaxSide} \cup {T1("Inc", TLit(1)), TVar("two")}

\* operands of draw: the empty list, single points, a list of one point, a
\* literal, points outside the image, and a point with an operator as its
\* coordinate
DrawOperands ==
    { TSym("Nil"),
      T2("Cons", TLit(1), TLit(2)),
      T2("Cons", T1("Inc", TLit(1)), TVar("two")),
      T2("Cons", T2("Cons", TLit(1), TLit(2)), TSym("Nil")),
      TLit(5),
      T2("Cons", TLit(-1), TLit(2)),
      T2("Cons", TLit(1), T1("Mul", TLit(DrawHeight))),
      T2("Cons", TLit(1), T2("Mul", TLit(DrawHeight), TLit(1))) }

PicturePrograms ==
    {T1("Draw", x) : x \in DrawOperands}
        \cup {T2("Checkerboard", w, h) : w \in SideOperands, h \in SideOperands}

SpecPicture == InitWith(PicturePrograms) /\ [][Next]_vars

\* the calls of display among the calls recorded on the VM
DisplayCalls(v) == SelectSeq(v.effects, LAMBDA c : c.call = "display")

\* C16: each picture operator emits its rendered image through the effects
\* boundary: evaluating Draw x or Checkerboard w h calls the effects display
\* operation exactly once with the image it built, before returning that
\* Image as the result.
C16_PicturesDisplayed ==
    (/\ pc = "done"
     /\ IsApp1(Entry, "Draw") \/ IsApp2(Entry, "Checkerboard")
     /\ result.status = "ok")
        => /\ result.value.tag = "Image"
           /\ DisplayCalls(vm) = <<DisplayCall(result.value)>>

\* the half of C16 that holds: Checkerboard w h displays the image it returns
C16_CheckerboardDisplayed ==
    (pc = "done" /\ IsApp2(Entry, "Checkerboard"))
        => /\ result.status = "ok"
           /\ result.value.tag = "Image"
           /\ DisplayCalls(vm) = <<DisplayCall(result.value)>>

(***************************************************************************)
(* Operator misuse.                                                        *)
(***************************************************************************)
\* operands that do not force to a Pair, and operands that do not force to
\* a literal
NonPairs == { TLit(1), TSym("Nil"), T1("Inc", TLit(1)), TVar("two") }
NonLits == { TSym("Nil"), T2("Cons", TLit(1), TSym("Nil")), T1("Mod", TLit(1)) }

MisusePrograms ==
    {T1(o, x) : o \in {"Car", "Cdr"}, x \in NonPairs}
        \cup {T2(o, x, TLit(1)) : o \in {"Add", "Mul", "Div", "Lt"}, x \in NonLits}
        \cup {T2(o, TLit(1), x) : o \in {"Add", "Mul", "Div", "Lt"}, x \in NonLits}
        \cup {T1(o, x) : o \in {"Inc", "Dec", "Neg", "Pwr2"}, x \in NonLits}
        \cup {T2("Div", x, TLit(0)) : x \in LitToks}
        \cup {TVar("undefined"), T1("Inc", TVar("undefined")),
              T1("Car", T2("Cons", TVar("undefined"), TSym("Nil")))}

SpecMisuse == InitWith(MisusePrograms) /\ [][Next]_vars

\* C17: operator misuse ends the reduction with an evaluation error that is
\* returned to the caller as a value, not with a process abort and not with
\* a normal result: Car or Cdr on a non-pair, an arithmetic operator whose
\* operand is not a literal after forcing, division by zero, and the lookup
\* of a name that has no definition in the environment.
C17_MisuseIsErrorValue ==
    pc = "done" => result.status = "error"

\* what the code does instead: every misuse of the list ends in a panic
C17_MisusePanics ==
    pc = "done" => result.status = "panic"

(***************************************************************************)
(* Dem applied to malformed operands.                                      *)
(***************************************************************************)
\* values whose encodings are cut short
TruncatedSources ==
    { Nil, Lit(0), Lit(1), Lit(-17), Pair(Lit(1), Nil), Pair(Nil, Lit(1)),
      Pair(Pair(Nil, Nil), Nil) }

\* every proper prefix of an encoding: a bit string that ends before the
\* header or the payload is complete (the encoding is prefix-free)
TruncatedStrings ==
    UNION { {SubSeq(Modulate(value).value, 1, k) :
                k \in 0..(Len(Modulate(value).value) - 1)} :
            value \in TruncatedSources }

NotModulated == { TLit(1), TSym("Nil"), T2("Cons", TLit(1), TSym("Nil")), TVar("two") }

MalformedPrograms ==
    {T1("Dem", <<Modulated(s)>>) : s \in TruncatedStrings}
        \cup {T1("Dem", x) : x \in NotModulated}

SpecMalformed == InitWith(MalformedPrograms) /\ [][Next]_vars

\* C18: Dem applied to a malformed Modulated value reports a modulation
\* error instead of a value or a crash: a bit string that ends before the
\* header or payload is complete (fewer than 2 bits, a width prefix with
\* missing payload bits, a Pair with a missing component) gives an error
\* value (ModError truncated, surfacing as EvalError bad_modulation); Dem
\* applied to a non-Modulated operand is likewise an evaluation error.
C18_MalformedIsError ==
    pc = "done" => result.status = "error"

\* what the code does instead: Dem of an operand that is not a Modulated
\* panics, and so does Dem of a string of fewer than two bits
C18_Panics ==
    (/\ pc = "done"
     /\ \/ Entry.captured_arg.tag # "Modulated"
        \/ Len(Entry.captured_arg.bits) < 2)
        => result.status = "panic"

(***************************************************************************)
(* Pwr2 at the full width of Number: the closure |x| i64::pow(2, x as u32) *)
(* of the Pwr2 arm, on two's complement words.                             *)
(***************************************************************************)
\* the width of the exponent i64::pow takes (u32)
ExponentBits == 32
\* low halves of the words handed to pwr2 range over 0..MaxLow
MaxLow == 70

\* the word whose low ExponentBits bits spell low, under a high half of
\* zeros (the value low), of ones (low - 2^32, negative) or of a single one
\* in its last place (low + 2^32)
WordOfHalves(high, low) ==
    [i \in 1..NumberBits |->
        IF i > NumberBits - ExponentBits
        THEN FormatBinary(low, ExponentBits)[i - (NumberBits - ExponentBits)]
        ELSE CASE high = "ones" -> TRUE
               [] high = "one" -> i = NumberBits - ExponentBits
               [] OTHER -> FALSE]

\* x as u32, as the sequence of its bits
AsU32(w) == [i \in 1..ExponentBits |-> w[NumberBits - ExponentBits + i]]

\* i64::pow(2, exp): 2^exp when it fits; when it does not, a panic under
\* overflow checks and the wrapped product (2^63 wraps to the minimum value,
\* anything beyond to zero) without
Pwr2Word(w, overflow_checks) ==
    LET exp == AsU32(w)
        small == \A i \in 1..(ExponentBits - 6) : ~exp[i]
        e == FoldBits(0, [i \in 1..6 |-> exp[ExponentBits - 6 + i]])
    IN  IF small /\ e <= NumberBits - 2 THEN Ok([tag |-> "Lit", word |-> OneHot(e)])
        ELSE IF overflow_checks THEN Panic
        ELSE IF small /\ e = NumberBits - 1 THEN Ok([tag |-> "Lit", word |-> MinWord])
        ELSE Ok([tag |-> "Lit", word |-> ZeroWord])

Pwr2Words ==
    {WordOfHalves(high, low) : high \in {"zeros", "ones", "one"}, low \in 0..MaxLow}
        \cup {WrappingNeg(WordOfHalves("zeros", low)) : low \in 1..MaxLow}

InitPwr2 ==
    /\ cvalue \in {[tag |-> "Lit", word |-> w] : w \in Pwr2Words}
    /\ cbits = Idle
    /\ cdecoded = Idle
    /\ pc = "pwr2"
    /\ statements = <<>>
    /\ next_stmt = 1
    /\ env = EmptyHeap
    /\ op = Sym("Pwr2")
    /\ vm = NewVM(EmptyHeap)
    /\ count = 0
    /\ result = Idle
    /\ driver = NoDriver

\* Symbol::Pwr2 => stack_lit1(vm, |x| i64::pow(2, x as u32)), the operand
\* being the literal cvalue, under either build
DoPwr2 ==
    /\ pc = "pwr2"
    /\ \E overflow_checks \in BOOLEAN :
          result' = Pwr2Word(cvalue.word, overflow_checks)
    /\ pc' = "powered"
    /\ UNCHANGED <<statements, next_stmt, env, op, vm, count>>
    /\ UNCHANGED codecVars
    /\ UNCHANGED driverVars

SpecPwr2 == InitPwr2 /\ [][DoPwr2]_vars

\* the literal is negative; the literal is 2^32 or more
IsNegativeWord(w) == w[1]
IsBeyondU32(w) == ~w[1] /\ \E i \in 1..(NumberBits - ExponentBits) : w[i]

\* C19: for every negative literal n in the signed 64-bit range, Pwr2 n ends
\* in an evaluation error and never returns a Lit (also for negative n whose
\* low 32 bits are a small number, such as n = -2^32 + 3); likewise no
\* exponent n >= 2^32 is silently reduced to a smaller exponent.
C19_Pwr2Domain ==
    (pc = "powered" /\ (IsNegativeWord(cvalue.word) \/ IsBeyondU32(cvalue.word)))
        => result.status # "ok"

\* the exponents 0..62, the ones whose power is a Number, give 2^n
C19_InRange ==
    \A n \in 0..(NumberBits - 2) :
        (pc = "powered" /\ cvalue.word = WordOfHalves("zeros", n))
            => result = Ok([tag |-> "Lit", word |-> OneHot(n)])

(***************************************************************************)
(* Statement lists that define a name more than once.                      *)
(***************************************************************************)
\* statement lists hold up to MaxStmts statements
MaxStmts == 3

RedefStatements ==
    { Statement(id, body) :
        id \in {"a", "main"},
        body \in {TLit(1), TLit(2), TVar("a"), T1("Inc", TVar("a"))} }

RECURSIVE StatementLists(_)
StatementLists(n) ==
    IF n = 0 THEN {<<>>}
    ELSE {Append(l, st) : l \in StatementLists(n - 1), st \in RedefStatements}

RedefPrograms == UNION {StatementLists(n) : n \in 1..MaxStmts}

InitRedef ==
    /\ statements \in RedefPrograms
    /\ pc = "build"
    /\ next_stmt = 1
    /\ env = EmptyHeap
    /\ op = Nil
    /\ vm = NewVM(EmptyHeap)
    /\ count = 0
    /\ result = Idle
    /\ driver = NoDriver
    /\ cvalue = Nil
    /\ cbits = Idle
    /\ cdecoded = Idle

SpecRedef == InitRedef /\ [][Next]_vars

\* the index of the last statement that defines id
LastDefinition(id) ==
    CHOOSE i \in 1..Len(statements) :
        /\ statements[i].id = id
        /\ \A j \in (i + 1)..Len(statements) : statements[j].id # id

\* the environment holds, for every identifier defined, the tree of its last
\* definition, and nothing else
Populated ==
    /\ DOMAIN env = {statements[i].id : i \in 1..Len(statements)}
    /\ \A id \in DOMAIN env :
          env[id] = BuildSymbolTree(statements[LastDefinition(id)]).value

\* C20: after the environment is populated from a statement list, every
\* identifier maps to the lowered body of its last definition in source
\* order (a later definition of the same name overwrites the earlier one),
\* and the expression that is evaluated is the one bound to the last
\* statement's identifier.
C20_LastDefinitionWins ==
    /\ []((pc = "build" /\ next_stmt > Len(statements)) => Populated)
    /\ [][pc = "build" /\ pc' = "run"
            => /\ op' = BuildSymbolTree(statements[Len(statements)]).value
               /\ vm'.heap = env
               /\ Populated]_vars

\* C20's case: a is defined twice before the entry point that refers to it
\* has been evaluated, to the later definition
C20_Witness ==
    /\ pc = "done"
    /\ statements = << Statement("a", TLit(1)), Statement("a", TLit(2)),
                       Statement("main", TVar("a")) >>
    /\ result = Ok(Lit(2))

(***************************************************************************)
(* Definitions that bind an argument with StoreArg.                        *)
(***************************************************************************)
TStoreArg(name, body, value) == TAp(TAp(<<StoreArg(name)>>, body), value)

StoreBodies ==
    { TVar("x"), T1("Inc", TVar("x")), T2("Add", TVar("x"), TVar("x")),
      TVar("two"), T2("Cons", TVar("x"), TSym("Nil")), TLit(7) }
StoreNames == { "x", "two" }

StorePrograms ==
    {TStoreArg(name, body, value) :
        name \in StoreNames, body \in StoreBodies, value \in NumOperands}
        \cup {T1("Inc", TVar("two")), TVar("two")}

SpecStore == InitWith(StorePrograms) /\ [][Next]_vars

\* C21: the environment is read-only during a reduction: for every program,
\* programs with argument-binding definitions included, the VM heap after
\* any step of run_expression equals the heap at its start (the environment
\* handed to run), and the caller's environment is unchanged afterwards.
C21_HeapReadOnly ==
    (pc \in {"run", "done"} /\ next_stmt > Len(statements)) => vm.heap = env

\* the half of C21 that holds: run works on a clone, so the environment the
\* caller built is the one stack_interpret populated, whatever the run did
C21_CallerEnvironmentKept ==
    (pc \in {"run", "done"} /\ next_stmt > Len(statements))
        => /\ DOMAIN env = {"two", "loop", "add1", "main"}
           /\ \A i \in 1..Len(statements) :
                 env[statements[i].id] = BuildSymbolTree(statements[i]).value

(***************************************************************************)
(* Repeated evaluation of one definition within a run.                     *)
(***************************************************************************)
SameOperands == { TVar("two"), TVar("add1"), T1("I", TVar("add1")), TLit(1) }

SamePrograms ==
    {T2(o, x, y) : o \in {"Eq", "Add", "Mul", "Div", "Lt"},
                   x \in SameOperands, y \in SameOperands}

SpecSame == InitWith(SamePrograms) /\ [][Next]_vars

\* a strict binary operator is about to run on two operands that are the
\* same variable
SameVarTwice ==
    /\ pc = "run"
    /\ op.tag \in {"Eq", "Add", "Mul", "Div", "Lt"}
    /\ Len(vm.stack) >= 2
    /\ vm.stack[Len(vm.stack)].tag = "Var"
    /\ vm.stack[Len(vm.stack)] = vm.stack[Len(vm.stack) - 1]

\* the two vm.resolve calls the operator's arm makes on its operands, in the
\* order it makes them
FirstLookup == Resolve(vm.stack[Len(vm.stack)], PopN(vm, 2).vm, MaxDepth)
SecondLookup == Resolve(vm.stack[Len(vm.stack) - 1], FirstLookup.vm, MaxDepth)

\* C22: evaluation is deterministic and referentially transparent:
\* evaluating a definition body twice, here by two lookups of the same Var
\* within one run (the two operands of a strict binary operator), yields the
\* same WHNF.
C22_SameVarSameValue ==
    SameVarTwice
        => /\ FirstLookup.status = SecondLookup.status
           /\ FirstLookup.status = "ok" => FirstLookup.value = SecondLookup.value

\* the case that holds: a variable bound to a literal is looked up twice
\* with the same result
C22_LiteralVarSameValue ==
    (SameVarTwice /\ vm.stack[Len(vm.stack)] = Var("two"))
        => /\ FirstLookup = Done(Lit(2), FirstLookup.vm)
           /\ SecondLookup = Done(Lit(2), SecondLookup.vm)

(***************************************************************************)
(* The order in which a strict binary operator forces its operands.        *)
(***************************************************************************)
\* operands: literals and expressions that force to one, operands that
\* evaluate to an under-applied operator, and the sum of a literal and an
\* under-applied operator
OrderOperands ==
    { TLit(1), TLit(2), T1("Inc", TLit(1)), TVar("two"),
      TAp(TVar("add1"), TLit(1)), T1("Add", TLit(1)), TVar("add1"),
      T1("Mul", TLit(2)), T1("Cons", TLit(1)),
      T2("Add", TLit(1), TVar("add1")), TSym("Inc") }

OrderPrograms ==
    {T2(o, x, y) : o \in {"Eq", "Add", "Mul", "Div", "Lt"},
                   x \in OrderOperands, y \in OrderOperands}

SpecOrder == InitWith(OrderPrograms) /\ [][Next]_vars

\* the outermost strict binary operator is about to run on its two operands
BinaryAboutToRun ==
    /\ pc = "run"
    /\ op.tag \in {"Eq", "Add", "Mul", "Div", "Lt"}
    /\ Len(vm.stack) >= 2

\* what the operator's arm yields forcing the first operand first (the
\* code's order), and forcing the second first: the value, or how it ended
FirstThenSecond ==
    Outcome(IF op.tag = "Eq" THEN ArmEq(vm, MaxDepth)
            ELSE StackLit2(op.tag, vm, MaxDepth))
SecondThenFirst ==
    Outcome(IF op.tag = "Eq" THEN ArmEqSecondFirst(vm, MaxDepth)
            ELSE StackLit2SecondFirst(op.tag, vm, MaxDepth))

\* C23: reduction is confluent on strict binary operators: for Add, Mul,
\* Div, Lt and Eq applied to any two operand expressions the result is the
\* same whether the first operand or the second operand is forced first,
\* also when an operand evaluates to an under-applied operator such as
\* `ap add 1`.
C23_OrderIndependent ==
    BinaryAboutToRun => FirstThenSecond = SecondThenFirst

\* the case that holds: both operands force to literals
C23_LiteralOperands ==
    (/\ BinaryAboutToRun
     /\ Run(vm.stack[Len(vm.stack)], env).status = "ok"
     /\ Run(vm.stack[Len(vm.stack)], env).value.tag = "Lit"
     /\ Run(vm.stack[Len(vm.stack) - 1], env).status = "ok"
     /\ Run(vm.stack[Len(vm.stack) - 1], env).value.tag = "Lit")
        => FirstThenSecond = SecondThenFirst

(***************************************************************************)
(* The command-line driver, src/app/main.rs.  driver holds the loop's      *)
(* state: status ("running", "exited", "panicked"), the exit code once     *)
(* exited, round (the loop variable _i), program, the number of requests   *)
(* sent, the last program string sent, the kind of the last reply and the  *)
(* last decoded response.  What the server answers is the input of a       *)
(* round.                                                                  *)
(***************************************************************************)
\* for _i in 0..50
Rounds == 50
\* the largest number the server puts at the head of a response
MaxReply == 2

\* let mut program = Symbol::List(vec![Symbol::Lit(0)])
FirstProgram == List(<<Lit(0)>>)

\* process::exit(code)
Exit(code) == [status |-> "exit", code |-> code]

\* what the server's well-formed responses demodulate to
ResponseValues ==
    {Pair(Lit(k), Nil) : k \in 0..MaxReply} \cup {Pair(Lit(1), Pair(Lit(2), Nil))}

\* responses that are not a pair with a number at its head, and a body cut
\* short
OddBodies ==
    {Modulate(Lit(3)).value, Modulate(Pair(Nil, Nil)).value, <<TRUE>>}

\* the outcomes of client.send(..).await and res.text().await: a transport
\* error, a status other than 200, a 200 whose body cannot be read, a 200
\* with a body
Replies ==
    {[kind |-> "err", body |-> <<>>], [kind |-> "status", body |-> <<>>],
     [kind |-> "unreadable", body |-> <<>>]}
        \cup {[kind |-> "ok", body |-> Modulate(v).value] : v \in ResponseValues}
        \cup {[kind |-> "ok", body |-> b] : b \in OddBodies}

\* async fn send_program, given the server's reply: the decoded response,
\* an exit, or a panic
SendProgram(program, reply) ==
    IF Modulate(program).status # "ok" THEN Panic
    ELSE CASE reply.kind = "err" -> Exit(1)
           [] reply.kind = "status" -> Exit(2)
           [] reply.kind = "unreadable" -> Panic
           [] OTHER -> Demodulate(reply.body)

\* a next program without the inc: the variant C24 has to tell from the code
CarOfResponse(response) == <<Ap, Sym("Car"), response>>

\* &[Symbol::Ap, Symbol::Inc, Symbol::Ap, Symbol::Car, response]
IncCarOfResponse(response) == <<Ap, Sym("Inc"), Ap, Sym("Car"), response>>

\* vm.run_symbols(symbols): the symbols are lowered to a tree, which is run
\* over the driver VM's empty heap
RunSymbols(symbols) ==
    LET tree == BuildSymbolTree(Statement("main", symbols))
    IN  IF tree.status # "ok" THEN Panic ELSE Run(tree.value, EmptyHeap)

InitDriver ==
    /\ driver = [NoDriver EXCEPT !.status = "running", !.program = FirstProgram]
    /\ pc = "driver"
    /\ statements = <<>>
    /\ next_stmt = 1
    /\ env = EmptyHeap
    /\ op = Nil
    /\ vm = NewVM(EmptyHeap)
    /\ count = 0
    /\ result = Idle
    /\ cvalue = Nil
    /\ cbits = Idle
    /\ cdecoded = Idle

\* one turn of main's loop: send_program, then run_symbols on the response
DriverRound ==
    /\ pc = "driver"
    /\ driver.status = "running"
    /\ driver.round < Rounds
    /\ \E reply \in Replies :
        LET program_string == Modulate(driver.program)
            response == SendProgram(driver.program, reply)
            asked == IF program_string.status # "ok" THEN driver
                     ELSE [driver EXCEPT !.sends = @ + 1,
                                         !.sent = program_string.value,
                                         !.reply = reply.kind]
        IN  driver' =
                CASE response.status = "exit" ->
                        [asked EXCEPT !.status = "exited", !.code = response.code]
                  [] response.status = "ok" ->
                        LET next == RunSymbols(IncCarOfResponse(response.value))
                        IN  IF next.status # "ok"
                            THEN [asked EXCEPT !.status = "panicked",
                                               !.response = response.value]
                            ELSE [asked EXCEPT !.response = response.value,
                                               !.program = next.value,
                                               !.round = @ + 1]
                  [] OTHER -> [asked EXCEPT !.status = "panicked"]
    /\ UNCHANGED <<pc, vmVars, codecVars>>

\* main returns Ok(()) when the loop is over
DriverReturn ==
    /\ pc = "driver"
    /\ driver.status = "running"
    /\ driver.round = Rounds
    /\ driver' = [driver EXCEPT !.status = "exited", !.code = 0]
    /\ UNCHANGED <<pc, vmVars, codecVars>>

NextDriver == DriverRound \/ DriverReturn

SpecDriver == InitDriver /\ [][NextDriver]_vars

\* the number the server put at the head of the last response, plus one
IncOfCar == Lit(driver.response.hd.n + 1)

PartialArgs == { TLit(1), TVar("two"), T1("Inc", TLit(1)) }

\* a binary operator applied to one argument, a ternary one applied to two
DirectPartials ==
    {T1(o, a) : o \in {"Add", "Mul", "Div", "Lt", "Eq", "Cons", "T", "F"},
                a \in PartialArgs}
        \cup {T2("S", TSym("T"), TSym("I")), T2("If0", TLit(0), TSym("Add"))}

\* expressions that reduce to a partial application
ReachedPartials ==
    UNION {{ T1("I", p), T2("T", p, TLit(0)), T3("If0", TLit(0), p, TLit(9)),
             T1("Car", T2("Cons", p, TSym("Nil"))) }
                : p \in {T1("Add", TLit(1)), T1("Cons", TLit(1))}}
        \cup {TVar("add1")}

PartialPrograms == DirectPartials \cup ReachedPartials

SpecPartial == InitWith(PartialPrograms) /\ [][Next]_vars

\* the argument the programs of PartialPrograms are short of
Missing == Lit(5)

\* the run of the entry point has returned
RunReturned == pc = "done" /\ next_stmt > Len(statements)

\* C25: when reduction reaches a head operator O with n < arity(O)
\* arguments, the value returned is O wrapped in exactly n closures holding
\* those arguments in application order (first-applied innermost), so that
\* applying the returned value to the missing arguments gives the same
\* result as the original full application.
C25_PartialApplication ==
    RunReturned
        => /\ result.status = "ok"
           /\ IsWhnf(result.value)
           /\ IsWhnf(Entry) => result.value = Entry
           /\ Run(App(result.value, Missing), env) = Run(App(Entry, Missing), env)

\* the case that holds: the entry point is itself the operator applied to
\* too few arguments, as in `:1 = ap add 1`
C25_DirectPartial ==
    (RunReturned /\ IsWhnf(Entry))
        => /\ result = Ok(Entry)
           /\ Run(App(result.value, Missing), env) = Run(App(Entry, Missing), env)

(***************************************************************************)
(* Lowering of token sequences: the one statement "main" has any sequence  *)
(* of up to MaxTokens tokens for its body.                                 *)
(***************************************************************************)
MaxTokens == 5

Tokens == {Ap, Sym("Inc"), Lit(1), Nil}

TokenSeqs == UNION {[1..n -> Tokens] : n \in 0..MaxTokens}

InitTokens ==
    /\ statements \in {<<Statement("main", s)>> : s \in TokenSeqs}
    /\ pc = "build"
    /\ next_stmt = 1
    /\ env = EmptyHeap
    /\ op = Nil
    /\ vm = NewVM(EmptyHeap)
    /\ count = 0
    /\ result = Idle
    /\ cvalue = Nil
    /\ cbits = Idle
    /\ cdecoded = Idle
    /\ driver = NoDriver

SpecTokens == InitTokens /\ [][Next]_vars

RECURSIVE ParseExpression(_, _)
\* the prefix grammar read from the left: an expression starting at token i
\* is a token other than ap, or ap followed by two expressions (the function,
\* then the argument); next is the index after the expression
ParseExpression(tokens, i) ==
    IF i > Len(tokens) THEN [ok |-> FALSE]
    ELSE IF tokens[i] # Ap THEN [ok |-> TRUE, tree |-> tokens[i], next |-> i + 1]
    ELSE LET f == ParseExpression(tokens, i + 1)
         IN  IF ~f.ok THEN f
             ELSE LET x == ParseExpression(tokens, f.next)
                  IN  IF ~x.ok THEN x
                      ELSE [ok |-> TRUE, tree |-> Closure(x.tree, f.tree),
                            next |-> x.next]

\* the sequence is exactly one expression
WellFormed(tokens) ==
    /\ ParseExpression(tokens, 1).ok
    /\ ParseExpression(tokens, 1).next = Len(tokens) + 1

\* the statement has been through build_symbol_tree
Lowered == pc # "build" \/ next_stmt > 1

\* C26: lowering turns every well-formed prefix token sequence into exactly
\* one tree in which each `ap f x` is Closure{captured_arg: x, body: f}; a
\* sequence that is not a single expression (surplus tokens, or an ap with
\* fewer than two following sub-expressions) is rejected and no value is
\* stored for it.
C26_LoweringIsPrefixParse ==
    Lowered =>
        IF WellFormed(statements[1].body)
        THEN /\ DOMAIN env = {"main"}
             /\ env["main"] = ParseExpression(statements[1].body, 1).tree
        ELSE /\ env = EmptyHeap
             /\ pc = "done"
             /\ result = Panic

\* a sequence with an application has been lowered and stored
C26_Witness ==
    /\ Lowered
    /\ WellFormed(statements[1].body)
    /\ Len(statements[1].body) = MaxTokens
    /\ env["main"].tag = "Closure"

\* a sequence with a surplus token has been rejected
C26_Rejected ==
    /\ Lowered
    /\ ~WellFormed(statements[1].body)
    /\ Len(statements[1].body) > 1
    /\ statements[1].body[1] # Ap
    /\ result = Panic

(***************************************************************************)
(* List literals: the parser's Symbol::List tokens, flat and nested, as    *)
(* the entry point and under car and cdr.                                  *)
(***************************************************************************)
ListLiteralItems ==
    { Lit(1), Lit(2), Nil, List(<<>>), List(<<Lit(1)>>), List(<<List(<<Lit(2)>>)>>) }

ListLiterals ==
    {List(items) : items \in UNION {[1..n -> ListLiteralItems] : n \in 0..MaxListLen}}

ListLiteralPrograms ==
    UNION {{ <<l>>, T1("Car", <<l>>), T1("Cdr", <<l>>), T1("Car", T1("Car", <<l>>)) }
                : l \in ListLiterals}

SpecLiteral == InitWith(ListLiteralPrograms) /\ [][Next]_vars

RECURSIVE NoList(_)
\* no List variant anywhere in the tree
NoList(s) ==
    CASE s.tag = "List" -> FALSE
      [] s.tag = "Pair" -> NoList(s.hd) /\ NoList(s.tl)
      [] s.tag = "Closure" -> NoList(s.captured_arg) /\ NoList(s.body)
      [] OTHER -> TRUE

RECURSIVE PairChain(_)
\* the right-nested chain of Pair cells for a list literal, its elements in
\* source order, lists among them chained likewise
PairChain(s) ==
    IF s.tag # "List" THEN s
    ELSE IF s.items = <<>> THEN Nil
    ELSE Pair(PairChain(Head(s.items)), PairChain(List(Tail(s.items))))

\* the list literal of the entry point's body: its last token
EntryLiteral ==
    LET body == statements[Len(statements)].body IN body[Len(body)]

\* the entry point's definition has been lowered and stored
EntryStored == "main" \in DOMAIN env

\* C27: after lowering no List variant remains anywhere in a definition's
\* tree: every list literal, including a list nested inside another list,
\* has become a right-nested chain of Pair cells ending in Nil with the
\* elements in source order, so the evaluator never meets a List.
C27_NoListAfterLowering ==
    EntryStored
        => /\ NoList(Entry)
           /\ Len(statements[Len(statements)].body) = 1
                => Entry = PairChain(EntryLiteral)
           /\ pc = "run" => NoList(op)

\* the case that holds: a list literal without a list among its elements
C27_FlatLists ==
    (EntryStored /\ \A i \in DOMAIN EntryLiteral.items :
                        EntryLiteral.items[i].tag # "List")
        => /\ NoList(Entry)
           /\ Len(statements[Len(statements)].body) = 1
                => Entry = PairChain(EntryLiteral)
           /\ pc = "run" => NoList(op)

\* an operator that forces its first operand is about to run on it
ForcingAboutToRun ==
    /\ pc = "run"
    /\ op.tag \in {"Inc", "Dec", "Neg", "Car", "Cdr", "IsNil", "Add", "Mul", "Eq"}
    /\ Len(vm.stack) >= NumArgs(op)

\* the VM as the arm's vm.resolve of the first operand finds it, and what
\* the resolve yields
BeforeResolve == PopN(vm, NumArgs(op)).vm
OperandResolved == Resolve(vm.stack[Len(vm.stack)], BeforeResolve, MaxDepth)

\* C28: every call of run_expression (and therefore every vm.resolve of an
\* operand) is stack-neutral: when it returns, the VM argument stack holds
\* exactly the entries it held when the call began, also when the result is
\* an under-applied operator; no pushed argument is left behind.
C28_StackNeutral ==
    /\ (RunReturned /\ result.status = "ok") => vm.stack = <<>>
    /\ (ForcingAboutToRun /\ OperandResolved.status = "ok")
            => OperandResolved.vm.stack = BeforeResolve.stack

\* the case that holds: a call that returns a literal, a pair or nil
\* leaves the stack as it found it
C28_NeutralOnData ==
    /\ (RunReturned /\ result.status = "ok" /\ NumArgs(result.value) = 0
            /\ result.value.tag # "Closure")
            => vm.stack = <<>>
    /\ (ForcingAboutToRun /\ OperandResolved.status = "ok"
            /\ NumArgs(OperandResolved.value) = 0
            /\ OperandResolved.value.tag # "Closure")
            => OperandResolved.vm.stack = BeforeResolve.stack

(***************************************************************************)
(* Pending arguments: a unary operator that forces its operand, applied    *)
(* to one argument more than it takes, so that the extra argument is on    *)
(* the VM stack while the operand is resolved.                             *)
(***************************************************************************)
PendingOperands ==
    NumOperands \cup
    { T1("Add", TLit(1)), TVar("add1"), T1("Cons", TLit(1)),
      T2("Cons", TLit(1), TSym("Nil")), T2("Cons", T1("Add", TLit(1)), TSym("Nil")),
      TSym("Nil"), TSym("Add") }

PendingPrograms ==
    {TAp(T1(o, x), TLit(5)) : o \in {"Inc", "Neg", "Car", "Cdr", "IsNil"},
                              x \in PendingOperands}

SpecPending == InitWith(PendingPrograms) /\ [][Next]_vars

\* a unary operator is about to force its operand while arguments of the
\* enclosing application are on the stack below it
ForcingWithPending ==
    /\ pc = "run"
    /\ op.tag \in {"Inc", "Neg", "Car", "Cdr", "IsNil"}
    /\ Len(vm.stack) >= 2

\* the entries of the stack s up to the height n
Below(s, n) == [i \in 1..n |-> s[i]]

\* C29: while an operator forces one of its operands through vm.resolve,
\* the nested reduction pops only arguments pushed by that operand's own
\* closures: an entry that was already on the VM stack when resolve was
\* called is never popped or consumed, and the arity check of the nested
\* head counts only the operand's own arguments.
C29_PendingUntouched ==
    (ForcingWithPending /\ OperandResolved.status = "ok")
        => /\ Len(OperandResolved.vm.stack) >= Len(BeforeResolve.stack)
           /\ Below(OperandResolved.vm.stack, Len(BeforeResolve.stack))
                = BeforeResolve.stack

\* the case that holds: an operand that resolves to a literal, a pair or
\* nil leaves the pending entries alone
C29_DataOperands ==
    (ForcingWithPending /\ OperandResolved.status = "ok"
        /\ NumArgs(OperandResolved.value) = 0
        /\ OperandResolved.value.tag # "Closure"
        /\ Run(vm.stack[Len(vm.stack)], env) = Ok(OperandResolved.value))
        => OperandResolved.vm.stack = BeforeResolve.stack

(***************************************************************************)
(* Halting: programs that end with a value, a definition cycle through     *)
(* variables only, and a definition that refers to itself through a        *)
(* strict operand.  The entry point is the last statement.                 *)
(***************************************************************************)
VariableCycle ==
    << Statement("ping", TVar("pong")), Statement("pong", TVar("ping")) >>

StrictCycle == << Statement("loop", T1("Inc", TVar("loop"))) >>

HaltPrograms ==
    {VariableCycle, StrictCycle} \cup {Program(T1("Inc", b)) : b \in NumOperands}

InitHalt ==
    /\ statements \in HaltPrograms
    /\ pc = "build"
    /\ next_stmt = 1
    /\ env = EmptyHeap
    /\ op = Nil
    /\ vm = NewVM(EmptyHeap)
    /\ count = 0
    /\ result = Idle
    /\ driver = NoDriver
    /\ cvalue = Nil
    /\ cbits = Idle
    /\ cdecoded = Idle

SpecHalt == InitHalt /\ [][Next]_vars

\* the run ended on run_expression's `if count > 1000 { panic!() }`
StepLimitFailure == result = Panic /\ count > CountLimit

\* every step of stack_interpret moves on: to the next statement, to the
\* next turn of the loop, or to another phase
Advances == next_stmt' > next_stmt \/ count' > count \/ pc' # pc

\* C30: every evaluation halts: for any program the evaluator either returns
\* a value or stops with the step-limit failure after a bounded number of
\* reduction steps; this covers definitions that refer to themselves only
\* through variables as well as definitions that refer to themselves
\* through a strict operand, where the nesting of operand forcing is bounded
\* by the same limit.
C30_HaltsWithinLimit ==
    /\ [][Advances]_vars
    /\ [](count <= CountLimit + 1 /\ next_stmt <= Len(statements) + 1)
    /\ [](pc = "done" => (result.status = "ok" \/ StepLimitFailure))

\* the case that holds: the turns of the outermost loop are bounded, the
\* cycle through variables ends on the step limit, and the programs without
\* a cycle return a value
C30_VariableCycleStops ==
    /\ [][Advances]_vars
    /\ [](count <= CountLimit + 1 /\ next_stmt <= Len(statements) + 1)
    /\ []((pc = "done" /\ statements = VariableCycle) => StepLimitFailure)
    /\ []((pc = "done" /\ statements \notin {VariableCycle, StrictCycle})
            => result.status = "ok")

====
